---- MODULE Spec2Model ----
(***************************************************************************)
(* A model of bevy_prefab: the instantiation scheduler (src/manager.rs),   *)
(* the document decoder and its loader (src/de, src/loader.rs), the        *)
(* descriptor registries and their default aliases (src/registry), the    *)
(* data overrides (src/data/overrides.rs) and the plugin with the          *)
(* registrations of the host (src/app.rs).                                 *)
(*                                                                         *)
(* Entities are positive integers: entity i of a world is the i-th element *)
(* of the sequence that models the world (Bevy numbers them from 0).  An   *)
(* entity is a function from component types to optional values: Absent    *)
(* when the entity has no such component, <<v>> when it has it with value  *)
(* v.  Every Option of the source is modelled that way.                    *)
(***************************************************************************)
EXTENDS Integers, Sequences, FiniteSets, TLC

VARIABLES
    world,          \* the target World: a sequence of entities
    loaded,         \* the handles Assets<Prefab>::get answers with Some
    defaults,       \* Assets<Prefab>: the data of the Prefab behind each handle
    pc,             \* "idle" | "spawner" (inside prefab_spawner) | "panicked"
    prefabs_queue,  \* prefab_spawner's work queue of Instantiate(entity, handle)
    blacklist,      \* prefab_spawner's blacklist
    born,           \* history: each entity as it was when it entered the world
    spawnedBy,      \* history: the root of the expansion that spawned the entity, 0 for a command
    expansions,     \* history: every expansion done, in order, with the assets then waited for
    last,           \* history: what the last step did
    dpc,            \* the decoder: "body" | "scene" | "done" | "failed" | "idle"
    id,             \* PrefabBody::visit_map's id
    body_ids,       \* the collection of PrefabBody::visit_map's IdValidation
    seq_ids,        \* the collection of IdentifiedInstanceSeq::visit_seq's IdValidation
    source_to_prefab, \* the EntityMap from the document's ids to the prefab's entities
    dworld,         \* the World of the Prefab being decoded
    derror,         \* the error the decode failed with
    declared,       \* history: the id of every element decoded, whether it was written, its parent, its prefab alias
    dlast,          \* history: the element the decoder read last
    pool,           \* the Prefab assets PrefabLoader::load has handed to the asset server
    completed,      \* history: the Prefab of every visit_map that returned Ok
    component_registry, \* the ComponentDescriptorRegistry's RegistryInner
    prefab_registry,    \* the PrefabDescriptorRegistry's RegistryInner
    tagged,         \* the PrefabDescriptorRegistry's table by uuid
    rlast,          \* history: the last registration, its result and the tables before it
    registered,     \* history: the kind, alias and type of every registration that succeeded
    otarget,        \* apply_override: the record the last patch was applied to, as it was before
    opatch,         \* apply_override: that patch
    oresult,        \* apply_override: the record after it
    owritten,       \* history: the override last decoded, as the document wrote it
    oerror,         \* the error its decode failed with
    owarned,        \* the fields apply_override or register_struct has warned about
    override_registry, \* the OverrideRegistry's table from type to OverrideDescriptor
    aliased,        \* history: the last two type names shortened, each with its alias
    apc,            \* the App: "new" | "built" | "running" | "panicked"
    plugin,         \* the PrefabPlugin as the host installed it
    registries,     \* the World's three registry resources, Absent when it has none
    prefab_deserializer, \* the World's PrefabDeserializer resource with the registries it owns
    hosted,         \* history: the registrations of the host that returned
    apanic,         \* history: the call that panicked and the message of its panic
    decoders        \* the locals of the decode each thread runs

schedVars == <<world, loaded, defaults, pc, prefabs_queue, blacklist, born, spawnedBy, expansions, last>>

decVars == <<dpc, id, body_ids, seq_ids, source_to_prefab, dworld, derror, declared, dlast,
             pool, completed>>

regVars == <<component_registry, prefab_registry, tagged, rlast, registered>>

ovVars == <<otarget, opatch, oresult, owritten, oerror, owarned, override_registry>>

alVars == <<aliased>>

appVars == <<apc, plugin, registries, prefab_deserializer, hosted, apanic, decoders>>

vars == <<schedVars, decVars, regVars, ovVars, alVars, appVars>>

\* What the scheduler, the decoder, the registrations and the overrides
\* leave alone.
notSched == <<decVars, regVars, ovVars, alVars, appVars>>

notDec == <<schedVars, regVars, ovVars, alVars, appVars>>

notReg == <<schedVars, decVars, ovVars, alVars, appVars>>

notOv == <<schedVars, decVars, regVars, alVars, appVars>>

notAl == <<schedVars, decVars, regVars, ovVars, appVars>>

notApp == <<schedVars, decVars, regVars, ovVars, alVars>>

\* How many arguments a generic type of the model takes.
MaxArgs == 2

\* How many prefab roots the host's commands spawn.
MaxRoots == 2

\* How many scene elements a document has.
MaxElements == 2

\* The ids a document declares and the generator draws (a u32 in the source).
Ids == 1..MaxElements

-----------------------------------------------------------------------------
(* Components *)

Absent == <<>>

Some(v) == <<v>>

Has(entity, c) == entity[c] # Absent

Get(entity, c) == entity[c][1]

\* The prefab data types of the model; each is also a component type.
PrefabTypes == {"Lamp", "Room", "Trap", "Cube"}

ComponentTypes ==
    {"Handle", "PrefabNotInstantiatedTag", "PrefabErrorTag", "PrefabTypeUuid",
     "PrefabConstruct", "PrefabTransformOverride", "BoxedPrefabOverrides",
     "Transform", "GlobalTransform", "Children", "Parent", "Name"} \cup PrefabTypes

\* The component types with a ComponentDescriptor.
Registered ==
    {"Parent", "GlobalTransform", "Transform", "Name",
     "Handle", "PrefabNotInstantiatedTag", "PrefabTransformOverride",
     "PrefabConstruct", "PrefabTypeUuid"} \cup PrefabTypes

Blank == [c \in ComponentTypes |-> Absent]

Insert(entity, c, v) == [entity EXCEPT ![c] = Some(v)]

Remove(entity, c) == [entity EXCEPT ![c] = Absent]

\* HashMap::insert
MapInsert(map, k, v) == [x \in DOMAIN map \cup {k} |-> IF x = k THEN v ELSE map[x]]

TypeUuidOf(type) == "uuid-" \o type

DefaultTransform == [translation |-> 0, rotation |-> 0, scale |-> 1]

NoTransformOverride == [translation |-> Absent, rotation |-> Absent, scale |-> Absent]

\* A value of a primitive type and a value of Vec2, each with the type that
\* downcast_mut looks at.
I32(n) == [type |-> "i32", value |-> n]

Vec2(x, y) == [type |-> "Vec2", x |-> x, y |-> y]

\* Vec2Override: an optional value for each axis.
Vec2Override(x, y) == [type |-> "Vec2Override", x |-> x, y |-> y]

\* T::default() of a prefab data type.
DefaultData == [a |-> I32(0), b |-> I32(0)]

-----------------------------------------------------------------------------
(* The pool of decoded Prefab assets *)

Handles == {"lamp.prefab", "room.prefab", "trap.prefab"}

\* The PrefabDescriptor registered under each alias: "Cube" is built by code
\* alone, the others need a source document.
PrefabDescriptors ==
    [alias \in PrefabTypes |->
        [uuid |-> TypeUuidOf(alias), construct |-> alias,
         source_prefab_required |-> alias # "Cube"]]

\* Handle::<Prefab>::default(), the source of a prefab built by code alone.
DefaultHandle == "default"

PrefabInstanceNodeUuidOnly(source, descriptor, transform_override, parent) ==
    LET blank_instance == [Blank EXCEPT
            !["Handle"] = IF source = Absent THEN Some(DefaultHandle) ELSE source,
            !["PrefabTransformOverride"] = Some(transform_override),
            !["PrefabNotInstantiatedTag"] = Some("tag")]
        with_type == Insert(blank_instance, "PrefabTypeUuid", descriptor.uuid)
    IN  IF parent = Absent THEN with_type ELSE Insert(with_type, "Parent", parent[1])

\* de/instance.rs lines 215-245: the node a nested prefab element decodes into.
PrefabInstanceNode(source, descriptor, transform_override, parent) ==
    LET blank_instance == [Blank EXCEPT
            !["Handle"] = IF source = Absent THEN Some(DefaultHandle) ELSE source,
            !["PrefabTransformOverride"] = Some(transform_override),
            !["PrefabNotInstantiatedTag"] = Some("tag")]
        with_type == IF ~descriptor.source_prefab_required
                 THEN Insert(blank_instance, "PrefabConstruct", descriptor.construct)
                 ELSE Insert(blank_instance, "PrefabTypeUuid", descriptor.uuid)
    IN  IF parent = Absent THEN with_type ELSE Insert(with_type, "Parent", parent[1])

LampWorld ==
    << Insert(Blank, "Name", "lamp"),
       Insert(Insert(Blank, "Name", "bulb"), "Parent", 1) >>

\* The second nested element names the Lamp document as the source of a Room.
RoomWorld ==
    << Insert(Blank, "Name", "room"),
       Insert(Blank, "Name", "wall"),
       PrefabInstanceNode(Some("lamp.prefab"), PrefabDescriptors["Lamp"],
                          [NoTransformOverride EXCEPT !.translation = Some(5)], Some(2)),
       PrefabInstanceNode(Some("lamp.prefab"), PrefabDescriptors["Room"],
                          NoTransformOverride, Absent) >>

TrapWorld == << Blank >>

\* A Room document whose nested element names the document itself as its source.
LoopHandle == "loop.prefab"

LoopWorld ==
    << Insert(Blank, "Name", "loop"),
       PrefabInstanceNode(Some(LoopHandle), PrefabDescriptors["Room"],
                          NoTransformOverride, Absent) >>

\* A Room document whose nested Lamp has an `overrides` field: the decoder
\* attaches the BoxedPrefabOverrides it read (de/instance.rs lines 236-238).
PatchedHandle == "patched.prefab"

PatchedWorld ==
    << Insert(Blank, "Name", "patched"),
       Insert(PrefabInstanceNode(Some("lamp.prefab"), PrefabDescriptors["Lamp"],
                                 NoTransformOverride, Absent),
              "BoxedPrefabOverrides", "overrides") >>

Assets ==
    [h \in Handles \cup {LoopHandle, PatchedHandle} |->
        CASE h = "lamp.prefab" ->
                [root_entity |-> 1, type |-> "Lamp", data |-> [a |-> I32(1), b |-> I32(1)],
                 transform |-> [translation |-> 1, rotation |-> 1, scale |-> 1],
                 world |-> LampWorld]
          [] h = "room.prefab" ->
                [root_entity |-> 1, type |-> "Room", data |-> DefaultData,
                 transform |-> DefaultTransform, world |-> RoomWorld]
          [] h = LoopHandle ->
                [root_entity |-> 1, type |-> "Room", data |-> DefaultData,
                 transform |-> DefaultTransform, world |-> LoopWorld]
          [] h = PatchedHandle ->
                [root_entity |-> 1, type |-> "Room", data |-> DefaultData,
                 transform |-> DefaultTransform, world |-> PatchedWorld]
          [] OTHER ->
                [root_entity |-> 1, type |-> "Trap", data |-> DefaultData,
                 transform |-> DefaultTransform, world |-> TrapWorld]]

\* PrefabData::construct of each type: TRUE for Ok, FALSE for Err.
Construct(type) == type # "Trap"

-----------------------------------------------------------------------------
(* registry/component.rs: the copy functions, one component at a time *)

\* The value of component c on the destination after copy::<c>.
copy(from, to, c) == from[c]

\* The value of component c on the destination after copy_without_overriding::<c>.
copy_without_overriding(from, to, c) ==
    IF Has(to, c) THEN from[c] ELSE to[c]

\* Every component of the prefab root's archetype goes through
\* copy_without_overriding.
CopyRootArchetype(from, to) ==
    [c \in ComponentTypes |->
        IF Has(from, c) THEN copy_without_overriding(from, to, c) ELSE to[c]]

\* Every component of another prefab entity's archetype goes through copy.
CopyArchetype(from, to) ==
    [c \in ComponentTypes |-> IF Has(from, c) THEN copy(from, to, c) ELSE to[c]]

NotRegisteredSkipped(from) == FALSE

\* Some component of the entity has no descriptor: the copy loop panics.
NotRegistered(from) == \E c \in ComponentTypes : Has(from, c) /\ c \notin Registered

-----------------------------------------------------------------------------
(* registry/mapped.rs *)

\* MapEntities of Parent, the one registered mappable component: a handle the
\* map has no entry for is left as it is.
MapEntities(parent, entity_map) ==
    IF parent \in DOMAIN entity_map THEN entity_map[parent] ELSE parent

map_no_components(entity, entity_map) == entity

map_entity_components(entity, entity_map) ==
    IF Has(entity, "Parent")
    THEN Insert(entity, "Parent", MapEntities(Get(entity, "Parent"), entity_map))
    ELSE entity

-----------------------------------------------------------------------------
(* data/overrides.rs and data/data.rs *)

primitive_overwrite(self, target) == self

\* primitive_data_override!: the target takes the value when it has its type.
primitive_apply_override(self, target) ==
    IF target.type = self.type THEN self ELSE target

vector_replace_whole(self, target) ==
    IF target.type = "Vec2"
    THEN Vec2(IF self.x # Absent THEN self.x[1] ELSE 0,
              IF self.y # Absent THEN self.y[1] ELSE 0)
    ELSE target

\* vector_data_override!: each axis the override supplies is written.
vector_apply_override(self, target) ==
    IF target.type = "Vec2"
    THEN Vec2(IF self.x # Absent THEN self.x[1] ELSE target.x,
              IF self.y # Absent THEN self.y[1] ELSE target.y)
    ELSE target

\* Override::apply_override of the boxed override of one field.
field_apply_override(self, target) ==
    IF self.type = "Vec2Override"
    THEN vector_apply_override(self, target)
    ELSE primitive_apply_override(self, target)

\* The else branches of the three: warn!("`{}` can't be overwritten by `{}`").
primitive_warns(self, target) == target.type # self.type

vector_warns(self, target) == target.type # "Vec2"

field_warns(self, target) ==
    IF self.type = "Vec2Override"
    THEN vector_warns(self, target)
    ELSE primitive_warns(self, target)

\* The fields StructOverride::apply_override's calls warn about.
apply_override_warnings(overrides, data) ==
    { f \in DOMAIN data \cap DOMAIN overrides : field_warns(overrides[f], data[f]) }

\* StructOverride::apply_override: overrides is the table of the fields the
\* patch names; every field of the target with an entry goes through it.
apply_override(overrides, data) ==
    [f \in DOMAIN data |->
        IF f \in DOMAIN overrides THEN field_apply_override(overrides[f], data[f])
        ELSE data[f]]

\* The longest sequence and the longest map a document writes for an override.
MaxWritten == 3

NoError == [msg |-> "", id |-> 0]

NoWritten == [form |-> "none", items |-> <<>>]

\* A Vec2Override written as a sequence of values, or as a map: a sequence
\* of entries <<key, value>>.
WrittenSeq(items) == [form |-> "seq", items |-> items]

WrittenMap(items) == [form |-> "map", items |-> items]

InvalidLength(len) == [msg |-> "invalid length", id |-> len]

UnknownField(key) == [msg |-> "unknown field " \o key, id |-> 0]

vector_visit_seq_truncating(seq) ==
    [error |-> NoError,
     value |-> Vec2Override(IF Len(seq) >= 1 THEN Some(seq[1]) ELSE Absent,
                            IF Len(seq) >= 2 THEN Some(seq[2]) ELSE Absent)]

\* vector_data_override!, __Visitor::visit_seq for Vec2Override: next_element
\* answers None once the sequence has ended.
vector_visit_seq(seq) ==
    IF Len(seq) > 2
    THEN [error |-> InvalidLength(2), value |-> Absent]
    ELSE [error |-> NoError,
          value |-> Vec2Override(IF Len(seq) >= 1 THEN Some(seq[1]) ELSE Absent,
                                 IF Len(seq) >= 2 THEN Some(seq[2]) ELSE Absent)]

\* vector_data_override!, __Visitor::visit_map for Vec2Override, from the
\* fields read so far: a key that is no axis fails to deserialize as Field.
RECURSIVE vector_visit_map(_, _)
vector_visit_map(access, fields) ==
    IF access = <<>>
    THEN [error |-> NoError, value |-> fields]
    ELSE LET key == Head(access)[1]
             value == Head(access)[2]
         IN  IF key = "x" THEN vector_visit_map(Tail(access), [fields EXCEPT !.x = Some(value)])
             ELSE IF key = "y"
             THEN vector_visit_map(Tail(access), [fields EXCEPT !.y = Some(value)])
             ELSE [error |-> UnknownField(key), value |-> Absent]

\* Vec2Override::deserialize
vector_deserialize(written) ==
    IF written.form = "seq" THEN vector_visit_seq(written.items)
    ELSE vector_visit_map(written.items, Vec2Override(Absent, Absent))

\* A scalar and a string as a document writes them.
WrittenInt(n) == [form |-> "int", items |-> n]

WrittenStr(t) == [form |-> "str", items |-> t]

InvalidType(form) == [msg |-> "invalid type " \o form, id |-> 0]

DuplicateField(key) == [msg |-> "duplicate field " \o key, id |-> 0]

\* The struct types of the host, each with its fields in order and their
\* types: String is a leaf type with no override of its own.
StructFields ==
    [type \in {"Outer", "Inner", "Bare"} |->
        CASE type = "Outer" -> << <<"a", "i32">>, <<"s", "String">>,
                                  <<"n", "Inner">>, <<"v", "Vec2">> >>
          [] type = "Inner" -> << <<"c", "i32">>, <<"t", "String">> >>
          [] OTHER -> << <<"s", "String">> >>]

IsStructNever(type) == FALSE

\* field.reflect_ref() is ReflectRef::Struct
IsStruct(type) == type \in DOMAIN StructFields

FieldOverrideDescriptor(de) == [kind |-> "Field", de |-> de, fields |-> <<>>]

StructOverrideDescriptor(fields) == [kind |-> "Struct", de |-> "", fields |-> fields]

\* OverrideRegistry::default, as far as the types of the model go.
DefaultOverrideRegistry ==
    MapInsert(MapInsert(<<>>, "i32", FieldOverrideDescriptor("i32")),
              "Vec2", FieldOverrideDescriptor("Vec2Override"))

\* OverrideRegistry::register::<K, T>: entry(..).or_insert_with(..)
register(registry, K, T) ==
    IF K \in DOMAIN registry THEN registry
    ELSE MapInsert(registry, K, FieldOverrideDescriptor(T))

\* OverrideRegistry::register_struct_from_value from field i on, with the
\* fields of the descriptor so far and the warnings so far.
RECURSIVE register_struct_from_value(_, _, _, _, _)
register_struct_from_value(registry, type, i, fields, warned) ==
    IF i > Len(StructFields[type])
    THEN [registry |-> MapInsert(registry, type, StructOverrideDescriptor(fields)),
          warned |-> warned]
    ELSE LET name == StructFields[type][i][1]
             field_type == StructFields[type][i][2]
         IN  IF field_type \in DOMAIN registry
             THEN register_struct_from_value(registry, type, i + 1,
                                             MapInsert(fields, name, registry[field_type]), warned)
             ELSE IF IsStruct(field_type)
             THEN LET inner == register_struct_from_value(registry, field_type, 1, <<>>, warned)
                  IN  register_struct_from_value(inner.registry, type, i + 1,
                          MapInsert(fields, name, inner.registry[field_type]), inner.warned)
             ELSE register_struct_from_value(registry, type, i + 1, fields,
                                             warned \cup {<<type, name>>})

\* FieldOverrideDescriptor::de, T::deserialize for the T registered.
field_de(de, written) ==
    CASE de = "i32" ->
            IF written.form = "int"
            THEN [error |-> NoError, value |-> I32(written.items)]
            ELSE [error |-> InvalidType(written.form), value |-> Absent]
      [] de = "Vec2Override" ->
            IF written.form \in {"seq", "map"}
            THEN vector_deserialize(written)
            ELSE [error |-> InvalidType(written.form), value |-> Absent]
      [] OTHER ->
            IF written.form = "str"
            THEN [error |-> NoError, value |-> [type |-> de, value |-> written.items]]
            ELSE [error |-> InvalidType(written.form), value |-> Absent]

\* StructOverrideDescriptor::visit_map over the entries of a written map,
\* with the overrides read so far; and OverrideDescriptor::deserialize.
RECURSIVE struct_visit_map(_, _, _)
RECURSIVE override_deserialize(_, _)
struct_visit_map(descriptor, map, overrides) ==
    IF map = <<>>
    THEN [error |-> NoError, value |-> overrides]
    ELSE LET key == Head(map)[1]
         IN  IF key \notin DOMAIN descriptor.fields
             THEN [error |-> UnknownField(key), value |-> Absent]
             ELSE IF key \in DOMAIN overrides
             THEN [error |-> DuplicateField(key), value |-> Absent]
             ELSE LET next == override_deserialize(descriptor.fields[key], Head(map)[2])
                  IN  IF next.error # NoError THEN next
                      ELSE struct_visit_map(descriptor, Tail(map),
                                            MapInsert(overrides, key, next.value))

override_deserialize(descriptor, written) ==
    IF descriptor.kind = "Field" THEN field_de(descriptor.de, written)
    ELSE IF written.form = "map" THEN struct_visit_map(descriptor, written.items, <<>>)
    ELSE [error |-> InvalidType(written.form), value |-> Absent]

\* The records the overrides of the model are applied to.
OverrideTargets ==
    { [a |-> I32(p), b |-> I32(q), v |-> Vec2(x, y)] : p, q, x, y \in {0, 1} }

\* StructOverrideDescriptor::visit_map over the descriptor of those records:
\* a patch names any of the fields, each with the override type registered
\* for the type of the field.
OverridePatches ==
    { f \in UNION { [S -> {I32(5), I32(6)}
                            \cup { Vec2Override(x, y) : x \in {Absent, Some(7)},
                                                        y \in {Absent, Some(8)} }] :
                    S \in SUBSET {"a", "b", "v"} } :
        \A k \in DOMAIN f : (f[k].type = "Vec2Override") <=> (k = "v") }

\* The host applies a decoded patch onto a record.
ApplyOverride(target, patch) ==
    /\ otarget' = target
    /\ opatch' = patch
    /\ oresult' = Some(apply_override(patch, target))
    /\ owritten' = NoWritten
    /\ oerror' = NoError
    /\ owarned' = apply_override_warnings(patch, target)
    /\ UNCHANGED override_registry
    /\ UNCHANGED notOv

OverrideInit ==
    /\ otarget = [a |-> I32(0), b |-> I32(0), v |-> Vec2(0, 0)]
    /\ opatch = <<>>
    /\ oresult = Absent
    /\ owritten = NoWritten
    /\ oerror = NoError
    /\ owarned = {}
    /\ override_registry = DefaultOverrideRegistry

OverrideNext ==
    \E target \in OverrideTargets, patch \in OverridePatches : ApplyOverride(target, patch)

\* The sequences of at most n elements of S.
SeqsUpTo(S, n) == UNION { [1..k -> S] : k \in 0..n }

\* The forms a document writes for the override of a vector.
WrittenVectors ==
    { WrittenSeq(items) : items \in SeqsUpTo({7, 8}, MaxWritten) }
        \cup { WrittenMap(items) : items \in SeqsUpTo({"x", "y", "z"} \X {7, 8}, MaxWritten - 1) }

\* The values a decoded vector override is applied to: the last is not a Vec2.
VectorTargets == { Vec2(x, y) : x, y \in {0, 1} } \cup {I32(1)}

\* A field's override is decoded by its FieldOverrideDescriptor and, when
\* the decode succeeds, applied to the field's value.
DecodeVector(written, target) ==
    /\ owritten' = written
    /\ otarget' = target
    /\ LET decoded == vector_deserialize(written)
       IN  /\ oerror' = decoded.error
           /\ IF decoded.error = NoError
              THEN /\ opatch' = decoded.value
                   /\ oresult' = Some(field_apply_override(decoded.value, target))
                   /\ owarned' = IF field_warns(decoded.value, target) THEN {""} ELSE {}
              ELSE /\ opatch' = <<>>
                   /\ oresult' = Absent
                   /\ owarned' = {}
    /\ UNCHANGED override_registry
    /\ UNCHANGED notOv

\* Records some of whose fields do not have the type the patch was decoded
\* for: a is an i32 or a Vec2, v is a Vec2 or an i32.
MixedTargets ==
    { [a |-> p, b |-> I32(1), v |-> q] : p \in {I32(0), Vec2(1, 1)}, q \in {Vec2(1, 1), I32(0)} }

\* The host calls register::<K, T> for a leaf type.
Register(K, T) ==
    /\ override_registry' = register(override_registry, K, T)
    /\ owritten' = [form |-> "register", items |-> K, before |-> override_registry]
    /\ owarned' = {}
    /\ oerror' = NoError
    /\ opatch' = <<>>
    /\ oresult' = Absent
    /\ UNCHANGED otarget
    /\ UNCHANGED notOv

\* The host calls register_struct::<T>.
RegisterStruct(type) ==
    /\ LET done == register_struct_from_value(override_registry, type, 1, <<>>, {})
       IN  /\ override_registry' = done.registry
           /\ owarned' = done.warned
    /\ owritten' = [form |-> "register_struct", items |-> type, before |-> override_registry]
    /\ oerror' = NoError
    /\ opatch' = <<>>
    /\ oresult' = Absent
    /\ UNCHANGED otarget
    /\ UNCHANGED notOv

\* The patches a document writes for the data of a struct type.
WrittenPatches ==
    { <<>>,
      << <<"a", WrittenInt(5)>> >>,
      << <<"s", WrittenStr("w")>> >>,
      << <<"a", WrittenInt(5)>>, <<"s", WrittenStr("w")>> >>,
      << <<"a", WrittenInt(5)>>, <<"a", WrittenInt(6)>> >>,
      << <<"a", WrittenStr("w")>> >>,
      << <<"n", WrittenMap(<< <<"c", WrittenInt(6)>> >>)>> >>,
      << <<"n", WrittenMap(<< <<"t", WrittenStr("w")>> >>)>> >>,
      << <<"v", WrittenSeq(<<7>>)>>, <<"a", WrittenInt(5)>> >>,
      << <<"c", WrittenInt(5)>>, <<"t", WrittenStr("w")>> >>,
      << <<"zz", WrittenInt(5)>> >> }

\* A patch for a registered struct type is decoded by its descriptor.
DecodePatch(type, written) ==
    /\ type \in DOMAIN override_registry
    /\ owritten' = [form |-> "patch", items |-> written, type |-> type]
    /\ LET decoded == override_deserialize(override_registry[type], WrittenMap(written))
       IN  /\ oerror' = decoded.error
           /\ opatch' = IF decoded.error = NoError THEN decoded.value ELSE <<>>
    /\ oresult' = Absent
    /\ owarned' = {}
    /\ UNCHANGED <<otarget, override_registry>>
    /\ UNCHANGED notOv

StructNext ==
    \/ Register("String", "String")
    \/ \E type \in DOMAIN StructFields : RegisterStruct(type)
    \/ \E type \in DOMAIN StructFields, written \in WrittenPatches : DecodePatch(type, written)

PatchNext ==
    \/ \E target \in MixedTargets, patch \in OverridePatches : ApplyOverride(target, patch)
    \/ \E written \in WrittenVectors, target \in VectorTargets : DecodeVector(written, target)

construct_instance_in_place(self, type, root) ==
    LET base == IF Has(root, type) THEN Get(root, type) ELSE self
        data == IF Has(root, "BoxedPrefabOverrides")
                THEN apply_override(Get(root, "BoxedPrefabOverrides"), base)
                ELSE base
    IN  [entity |-> Insert(root, type, data), ok |-> Construct(type), self |-> data]

\* PrefabDataHelper::construct_instance of a prefab data value of the given
\* type: the root entity after it, the constructor's result, and the value
\* itself after the call, which has patched a clone of it.
construct_instance(self, type, root) ==
    LET base == IF Has(root, type) THEN Get(root, type) ELSE self
        data == IF Has(root, "BoxedPrefabOverrides")
                THEN apply_override(Get(root, "BoxedPrefabOverrides"), base)
                ELSE base
    IN  [entity |-> Insert(root, type, data), ok |-> Construct(type), self |-> self]

-----------------------------------------------------------------------------
(* de/mod.rs and de/instance.rs: the decoder, as far as ids and sources go *)

\* The aliases the documents of the model use for nested prefabs.
DocAliases == {"Lamp", "Cube"}

\* The sources they write.
DocSources == {Absent, Some("lamp.prefab")}

\* The parents they write: none, an id of Ids, or 0, an id that no element
\* declares and the generator does not draw.
DocParents == {Absent, Some(1), Some(0)}

\* IdValidation::validate: whether the id is new to the collection (which
\* holds it afterwards either way).
validate(collection, x) == x \notin collection

\* IdValidation::generate_unique: the ids the loop can end with.
generate_unique(collection) == Ids \ collection

\* The id of an element: the one it wrote, or a generated one.
UnwrapOrGenerate(idf, collection) ==
    IF idf # Absent THEN {idf[1]} ELSE generate_unique(collection)

\* EntityMap::insert
ConflictingId(x) == [msg |-> "conflicting id", id |-> x]

MissingSource == [msg |-> "missing field source", id |-> 0]

SourceNotUsed == [msg |-> "source is not used by prefab", id |-> 0]

SourceUnchecked(descriptor, source) == NoError

\* de/instance.rs lines 203-213
SourceCheck(descriptor, source) ==
    IF descriptor.source_prefab_required
    THEN IF source = Absent THEN MissingSource ELSE NoError
    ELSE IF source # Absent THEN SourceNotUsed ELSE NoError

\* ComponentEntityMapperRegistryInner::map_world_components
map_world_components(w, entity_map) ==
    [i \in 1..Len(w) |-> map_entity_components(w[i], entity_map)]

NoElement ==
    [kind |-> "none", alias |-> "", id |-> Absent, source |-> Absent, components |-> <<>>]

UnknownVariant(alias) == [msg |-> "unknown variant " \o alias, id |-> 0]

\* The type the documents of the model name at their top, and the Prefab that
\* visit_map returns for it (lines 215-228): the document writes neither data
\* nor transform.
TopType == "Room"

PrefabOf(w) ==
    [root_entity |-> 1, type |-> TopType, data |-> DefaultData,
     transform |-> DefaultTransform, world |-> w]

\* The aliases the documents of the model name as their top-level type.
TopAliases == {TopType, "Nope"}

\* The ComponentDescriptor behind each alias of the component registry, named
\* after the function that registered it.
ComponentDescriptors ==
    [alias \in {"Name", "GlobalTransform", "PrefabNotInstantiatedTag", "Lamp"} |->
        [type |-> alias,
         de |-> CASE alias = "Name" -> "register"
                  [] alias = "GlobalTransform" -> "register_non_serializable"
                  [] alias = "PrefabNotInstantiatedTag" -> "register_private"
                  [] OTHER -> "register_prefab_data"]]

PrefabDataInsertedAsComponent(type) ==
    [msg |-> "prefab data can not be added as component " \o type, id |-> 0]

\* T::default() of a component type.
DefaultComponent == "default"

\* descriptor.de, with a value that always deserializes as T, ignoring the
\* authored value: a mutation of ComponentDeserializerFn.
de_ignoring_value(descriptor, value, entity) ==
    IF descriptor.de \in {"register", "register_non_serializable"}
    THEN [error |-> NoError, entity |-> Insert(entity, descriptor.type, DefaultComponent)]
    ELSE IF descriptor.de = "register_private"
    THEN [error |-> NoError, entity |-> entity]
    ELSE [error |-> PrefabDataInsertedAsComponent(descriptor.type), entity |-> entity]

\* descriptor.de: the ComponentDeserializerFn of each registration function.
de(descriptor, value, entity) ==
    CASE descriptor.de = "register" ->
            [error |-> NoError, entity |-> Insert(entity, descriptor.type, value)]
      [] descriptor.de = "register_non_serializable" ->
            [error |-> NoError, entity |-> Insert(entity, descriptor.type, DefaultComponent)]
      [] descriptor.de = "register_private" ->
            [error |-> NoError, entity |-> entity]
      [] OTHER ->
            [error |-> PrefabDataInsertedAsComponent(descriptor.type), entity |-> entity]

\* ComponentIdentifier::visit_str
ComponentIdentifier(alias) ==
    IF alias \in DOMAIN ComponentDescriptors
    THEN Some(ComponentDescriptors[alias]) ELSE Absent

\* IdentifiedComponent::visit_enum: one fragment of a component sequence.
IdentifiedComponent(fragment, entity) ==
    LET descriptor == ComponentIdentifier(fragment.alias)
    IN  IF descriptor = Absent
        THEN [error |-> UnknownVariant(fragment.alias), entity |-> entity]
        ELSE de(descriptor[1], fragment.value, entity)

\* IdentifiedComponentSeq::visit_seq: the fragments in order, up to the first
\* that fails.
RECURSIVE IdentifiedComponentSeq(_, _)
IdentifiedComponentSeq(components, entity) ==
    IF components = <<>>
    THEN [error |-> NoError, entity |-> entity]
    ELSE LET first == IdentifiedComponent(Head(components), entity)
         IN  IF first.error # NoError
             THEN first
             ELSE IdentifiedComponentSeq(Tail(components), first.entity)

\* A fragment of a document: Alias(value).
Fragment(alias, value) == [alias |-> alias, value |-> value]

\* The component sequences the documents of the model write.
DocComponents ==
    { <<>>,
      << Fragment("Name", "a") >>,
      << Fragment("Name", "a"), Fragment("Name", "b") >>,
      << Fragment("GlobalTransform", "g") >>,
      << Fragment("PrefabNotInstantiatedTag", "t") >>,
      << Fragment("Lamp", "x") >>,
      << Fragment("Nope", "n") >>,
      << Fragment("Name", "a"), Fragment("Nope", "n") >> }

\* The inserts of a later step on top of the components an entity has.
Overlay(entity, inserted) ==
    [c \in ComponentTypes |-> IF Has(inserted, c) THEN inserted[c] ELSE entity[c]]

\* An Err return: the decoder's locals are dropped.
Fail(error, element) ==
    /\ dpc' = "failed"
    /\ derror' = error
    /\ dlast' = element
    /\ id' = Absent
    /\ body_ids' = {}
    /\ seq_ids' = {}
    /\ source_to_prefab' = <<>>
    /\ dworld' = <<>>
    /\ UNCHANGED declared

\* PrefabBody::visit_map, Field::Id; a second id is a duplicate field.
BodyId(x) ==
    /\ dpc = "body"
    /\ id = Absent
    /\ IF validate(body_ids, x)
       THEN /\ id' = Some(x)
            /\ body_ids' = body_ids \cup {x}
            /\ dlast' = [NoElement EXCEPT !.kind = "id", !.id = Some(x)]
            /\ UNCHANGED <<dpc, seq_ids, source_to_prefab, dworld, derror, declared>>
       ELSE Fail(ConflictingId(x), [NoElement EXCEPT !.kind = "id", !.id = Some(x)])
    /\ UNCHANGED <<pool, completed>>
    /\ UNCHANGED notDec

\* PrefabBody::visit_map, Field::Scene: IdentifiedInstanceSeq::visit_seq
\* starts with an IdValidation of its own.
BodyScene ==
    /\ dpc = "body"
    /\ dpc' = "scene"
    /\ seq_ids' = {}
    /\ dlast' = NoElement
    /\ UNCHANGED <<id, body_ids, source_to_prefab, dworld, derror, declared>>
    /\ UNCHANGED <<pool, completed>>
    /\ UNCHANGED notDec

\* EntityInstanceDeserializer::visit_map, for a document that writes the id
\* before the components.
EntityInstance(idf, components) ==
    /\ dpc = "scene"
    /\ Len(dworld) <= MaxElements
    /\ LET element == [NoElement EXCEPT !.kind = "entity", !.id = idf,
                                        !.components = components]
           entity == Len(dworld) + 1
           entity_builder == IdentifiedComponentSeq(components, Blank)
       IN  IF idf # Absent /\ ~validate(seq_ids, idf[1])
           THEN Fail(ConflictingId(idf[1]), element)
           ELSE IF entity_builder.error # NoError
           THEN Fail(entity_builder.error, element)
           ELSE \E g \in UnwrapOrGenerate(idf, seq_ids) :
                   /\ seq_ids' = seq_ids \cup {g}
                   /\ source_to_prefab' = MapInsert(source_to_prefab, g, entity)
                   /\ dworld' = Append(dworld, entity_builder.entity)
                   /\ declared' = Append(declared,
                          [id |-> g, explicit |-> idf # Absent, entity |-> entity,
                           parent |-> Absent, components |-> components,
                           alias |-> ""])
                   /\ dlast' = element
                   /\ UNCHANGED <<dpc, id, body_ids, derror>>
    /\ UNCHANGED <<pool, completed>>
    /\ UNCHANGED notDec

\* PrefabInstanceDeserializer::visit_map, for a document that writes the id
\* before the components.
PrefabInstance(alias, idf, source, parent, components) ==
    /\ dpc = "scene"
    /\ Len(dworld) <= MaxElements
    /\ LET descriptor == PrefabDescriptors[alias]
           element == [kind |-> "prefab", alias |-> alias, id |-> idf, source |-> source,
                       components |-> components]
           blank_entity == Len(dworld) + 1
           prefab_entity == IdentifiedComponentSeq(components, Blank)
       IN  IF idf # Absent /\ ~validate(seq_ids, idf[1])
           THEN Fail(ConflictingId(idf[1]), element)
           ELSE IF prefab_entity.error # NoError
           THEN Fail(prefab_entity.error, element)
           ELSE IF SourceCheck(descriptor, source) # NoError
           THEN Fail(SourceCheck(descriptor, source), element)
           ELSE \E g \in UnwrapOrGenerate(idf, seq_ids) :
                   /\ seq_ids' = seq_ids \cup {g}
                   /\ source_to_prefab' = MapInsert(source_to_prefab, g, blank_entity)
                   /\ dworld' = Append(dworld,
                          Overlay(prefab_entity.entity,
                                  PrefabInstanceNode(source, descriptor, NoTransformOverride,
                                                     parent)))
                   /\ declared' = Append(declared,
                          [id |-> g, explicit |-> idf # Absent, entity |-> blank_entity,
                           parent |-> parent, components |-> components,
                           alias |-> alias])
                   /\ dlast' = element
                   /\ UNCHANGED <<dpc, id, body_ids, derror>>
    /\ UNCHANGED <<pool, completed>>
    /\ UNCHANGED notDec

\* PrefabBody::visit_map, Field::Components: the fragments go onto the root
\* entity.
BodyComponents(components) ==
    /\ dpc = "body"
    /\ LET element == [NoElement EXCEPT !.kind = "components", !.components = components]
           entity_builder == IdentifiedComponentSeq(components, dworld[1])
       IN  IF entity_builder.error # NoError
           THEN Fail(entity_builder.error, element)
           ELSE /\ dworld' = [dworld EXCEPT ![1] = entity_builder.entity]
                /\ dlast' = element
                /\ UNCHANGED <<dpc, id, body_ids, seq_ids, source_to_prefab, derror, declared>>
    /\ UNCHANGED <<pool, completed>>
    /\ UNCHANGED notDec

\* IdentifiedInstanceSeq::visit_seq returns.
SceneEnd ==
    /\ dpc = "scene"
    /\ dpc' = "body"
    /\ dlast' = NoElement
    /\ UNCHANGED <<id, body_ids, seq_ids, source_to_prefab, dworld, derror, declared>>
    /\ UNCHANGED <<pool, completed>>
    /\ UNCHANGED notDec

\* PrefabBody::visit_map, lines 207-228: the document's last key is read.
BodyEnd ==
    /\ dpc = "body"
    /\ \E g \in UnwrapOrGenerate(id, body_ids) :
        /\ body_ids' = body_ids \cup {g}
        /\ source_to_prefab' = MapInsert(source_to_prefab, g, 1)
        /\ dworld' = map_world_components(dworld, source_to_prefab')
        /\ declared' = Append(declared, [id |-> g, explicit |-> id # Absent, entity |-> 1,
                                         parent |-> Absent, components |-> <<>>,
                                         alias |-> ""])
    /\ dpc' = "done"
    /\ dlast' = NoElement
    /\ completed' = Append(completed, PrefabOf(dworld'))
    /\ UNCHANGED <<id, seq_ids, derror, pool>>
    /\ UNCHANGED notDec

load_err_publishing(assets, prefab) == Append(assets, prefab)

\* PrefabLoader::load when deserialize returns Err: the ? operator returns
\* before set_default_asset.
load_err(assets, prefab) == assets

\* PrefabLoader::load, lines 54-55: the decoded Prefab becomes the asset.
LoadOk ==
    /\ dpc = "done"
    /\ pool' = Append(pool, PrefabOf(dworld))
    /\ dpc' = "idle"
    /\ dlast' = NoElement
    /\ UNCHANGED <<id, body_ids, seq_ids, source_to_prefab, dworld, derror, declared,
                   completed>>
    /\ UNCHANGED notDec

\* PrefabLoader::load, lines 50-52: the decode has failed.
LoadErr ==
    /\ dpc = "failed"
    /\ pool' = load_err(pool, PrefabOf(<< Blank >>))
    /\ dpc' = "idle"
    /\ dlast' = NoElement
    /\ UNCHANGED <<id, body_ids, seq_ids, source_to_prefab, dworld, derror, declared,
                   completed>>
    /\ UNCHANGED notDec

\* The asset server hands the bytes of another document to PrefabLoader::load;
\* PrefabVariant::visit_str looks its alias up.  The model follows the loads
\* up to the first that publishes.
Load(alias) ==
    /\ dpc = "idle"
    /\ pool = <<>>
    /\ IF alias \in PrefabTypes
       THEN /\ dpc' = "body"
            /\ derror' = NoError
       ELSE /\ dpc' = "failed"
            /\ derror' = UnknownVariant(alias)
    /\ id' = Absent
    /\ body_ids' = {}
    /\ seq_ids' = {}
    /\ source_to_prefab' = <<>>
    /\ dworld' = IF alias \in PrefabTypes THEN << Blank >> ELSE <<>>
    /\ declared' = <<>>
    /\ dlast' = NoElement
    /\ UNCHANGED <<pool, completed>>
    /\ UNCHANGED notDec

\* visit_map has spawned the prefab's root entity and read no key yet.
DecInit ==
    /\ dpc = "body"
    /\ id = Absent
    /\ body_ids = {}
    /\ seq_ids = {}
    /\ source_to_prefab = <<>>
    /\ dworld = << Blank >>
    /\ derror = NoError
    /\ declared = <<>>
    /\ dlast = NoElement
    /\ pool = <<>>
    /\ completed = <<>>

DecodeNext ==
    \/ \E x \in Ids : BodyId(x)
    \/ BodyScene
    \/ \E idf \in {Absent} \cup { Some(x) : x \in Ids } : EntityInstance(idf, <<>>)
    \/ \E alias \in DocAliases, idf \in {Absent} \cup { Some(x) : x \in Ids },
          source \in DocSources, parent \in DocParents :
            PrefabInstance(alias, idf, source, parent, <<>>)
    \/ SceneEnd
    \/ BodyEnd
    \/ LoadOk
    \/ LoadErr
    \/ \E alias \in TopAliases : Load(alias)

-----------------------------------------------------------------------------
(* registry/mod.rs and registry/prefab.rs *)

Aliases == {"Prefab", "Lamp", "Light"}

\* The types the host registers, each with the uuid its TypeUuid declares: Torch
\* declares the uuid of Lamp.
Types == {"BlankPrefab", "Lamp", "Torch", "Door"}

TYPE_UUID(type) == IF type = "Torch" THEN TypeUuidOf("Lamp") ELSE TypeUuidOf(type)

Ok == [error |-> "", key |-> ""]

AliasAlreadyRegistered(alias) == [error |-> "alias already registered", key |-> alias]

TypeAlreadyRegistered(type) == [error |-> "type already registered", key |-> type]

UuidAlreadyRegistered(type) == [error |-> "type have a conflicting uuid", key |-> type]

\* Registry::empty
EmptyRegistry == [contents |-> <<>>, named |-> <<>>, typed |-> <<>>]

\* RegistryInner::register_internal: the registry after the call and its result.
register_internal_alias_only(registry, alias, type, descriptor) ==
    IF alias \in DOMAIN registry.named
    THEN [registry |-> registry, result |-> AliasAlreadyRegistered(alias)]
    ELSE LET i == Len(registry.contents) + 1
         IN  [registry |-> [contents |-> Append(registry.contents, descriptor),
                            named |-> MapInsert(registry.named, alias, i),
                            typed |-> MapInsert(registry.typed, type, i)],
              result |-> Ok]

register_internal(registry, alias, type, descriptor) ==
    IF alias \in DOMAIN registry.named
    THEN [registry |-> registry, result |-> AliasAlreadyRegistered(alias)]
    ELSE IF type \in DOMAIN registry.typed
    THEN [registry |-> registry, result |-> TypeAlreadyRegistered(type)]
    ELSE LET i == Len(registry.contents) + 1
         IN  [registry |-> [contents |-> Append(registry.contents, descriptor),
                            named |-> MapInsert(registry.named, alias, i),
                            typed |-> MapInsert(registry.typed, type, i)],
              result |-> Ok]

register_aliased_tagging_first(registry, by_uuid, alias, type) ==
    IF TYPE_UUID(type) \in DOMAIN by_uuid
    THEN [registry |-> registry, tagged |-> by_uuid, result |-> UuidAlreadyRegistered(type)]
    ELSE LET r == register_internal(registry, alias, type,
                                    [uuid |-> TYPE_UUID(type), type |-> type])
         IN  [registry |-> r.registry,
              tagged |-> MapInsert(by_uuid, TYPE_UUID(type), Len(registry.contents) + 1),
              result |-> r.result]

\* PrefabDescriptorRegistry::register_aliased: the registry and the table by
\* uuid after the call, and its result.  The index the table stores is the
\* position of the new descriptor in contents.
register_aliased(registry, by_uuid, alias, type) ==
    IF TYPE_UUID(type) \in DOMAIN by_uuid
    THEN [registry |-> registry, tagged |-> by_uuid, result |-> UuidAlreadyRegistered(type)]
    ELSE LET r == register_internal(registry, alias, type,
                                    [uuid |-> TYPE_UUID(type), type |-> type])
         IN  IF r.result # Ok
             THEN [registry |-> registry, tagged |-> by_uuid, result |-> r.result]
             ELSE [registry |-> r.registry,
                   tagged |-> MapInsert(by_uuid, TYPE_UUID(type), Len(r.registry.contents)),
                   result |-> Ok]

\* RegistryInner::find_by_name
find_by_name(registry, name) ==
    IF name \in DOMAIN registry.named /\ registry.named[name] \in 1..Len(registry.contents)
    THEN Some(registry.contents[registry.named[name]])
    ELSE Absent

find_by_type_first(registry, type) ==
    IF registry.contents # <<>> THEN Some(registry.contents[1]) ELSE Absent

\* RegistryInner::find_by_type
find_by_type(registry, type) ==
    IF type \in DOMAIN registry.typed /\ registry.typed[type] \in 1..Len(registry.contents)
    THEN Some(registry.contents[registry.typed[type]])
    ELSE Absent

Registration(kind, alias, type) ==
    [kind |-> kind, alias |-> alias, type |-> type,
     named |-> DOMAIN (IF kind = "prefab" THEN prefab_registry ELSE component_registry).named,
     typed |-> DOMAIN (IF kind = "prefab" THEN prefab_registry ELSE component_registry).typed,
     tagged |-> DOMAIN tagged,
     before |-> [component_registry |-> component_registry,
                 prefab_registry |-> prefab_registry, tagged |-> tagged]]

\* ComponentDescriptorRegistry::register
RegisterComponent(alias, type) ==
    LET r == register_internal(component_registry, alias, type, [type |-> type])
    IN  /\ component_registry' = r.registry
        /\ rlast' = [call |-> Registration("component", alias, type), result |-> r.result]
        /\ registered' = IF r.result = Ok
                         THEN registered \cup {<<"component", alias, type>>}
                         ELSE registered
        /\ UNCHANGED <<prefab_registry, tagged>>
        /\ UNCHANGED notReg

\* PrefabDescriptorRegistry::register_aliased
RegisterPrefab(alias, type) ==
    LET r == register_aliased(prefab_registry, tagged, alias, type)
    IN  /\ prefab_registry' = r.registry
        /\ tagged' = r.tagged
        /\ rlast' = [call |-> Registration("prefab", alias, type), result |-> r.result]
        /\ registered' = IF r.result = Ok
                         THEN registered \cup {<<"prefab", alias, type>>}
                         ELSE registered
        /\ UNCHANGED component_registry
        /\ UNCHANGED notReg

\* The registries as their Default makes them: the prefab registry holds
\* BlankPrefab under "Prefab".
RegInit ==
    /\ component_registry = EmptyRegistry
    /\ LET r == register_aliased(EmptyRegistry, <<>>, "Prefab", "BlankPrefab")
       IN  prefab_registry = r.registry /\ tagged = r.tagged
    /\ rlast = [call |-> [kind |-> "none", alias |-> "", type |-> "",
                          named |-> {}, typed |-> {}, tagged |-> {},
                          before |-> [component_registry |-> EmptyRegistry,
                                      prefab_registry |-> EmptyRegistry,
                                      tagged |-> <<>>]],
                result |-> Ok]
    /\ registered = {<<"prefab", "Prefab", "BlankPrefab">>}

RegistryNext ==
    \/ \E alias \in Aliases, type \in Types : RegisterComponent(alias, type)
    \/ \E alias \in Aliases, type \in Types : RegisterPrefab(alias, type)

-----------------------------------------------------------------------------
(* app.rs: PrefabPlugin::build, the PrefabAppBuilder of the host, and the  *)
(* commit of manager.rs at startup                                         *)

\* The three registries as PrefabPlugin::build inserts them.
DefaultRegistries ==
    LET r == register_aliased(EmptyRegistry, <<>>, "Prefab", "BlankPrefab")
    IN  [component_registry |-> EmptyRegistry,
         prefab_registry |-> r.registry,
         tagged |-> r.tagged,
         component_entity_mapper |-> {}]

NoPanic == ""

\* Option::unwrap of get_resource_mut or remove_resource on None
NoRegistry == "unwrap on None"

Returned(resources) == [resources |-> resources, panic |-> NoPanic]

Panicked(resources, message) == [resources |-> resources, panic |-> message]

\* PrefabAppBuilder::register_prefab_component_aliased and
\* register_prefab_component_aliased_non_serializable: the registry
\* resources after the call and the panic it ended with.
register_prefab_component_aliased(resources, alias, type) ==
    IF resources = Absent THEN Panicked(resources, NoRegistry)
    ELSE LET r == register_internal(resources[1].component_registry, alias, type,
                                    [type |-> type])
         IN  IF r.result # Ok
             THEN Panicked(resources, "prefab component could not be registered")
             ELSE Returned(Some([resources[1] EXCEPT !.component_registry = r.registry]))

\* PrefabAppBuilder::register_prefab_mappable_component_aliased
register_prefab_mappable_component_aliased(resources, alias, type) ==
    LET builder == register_prefab_component_aliased(resources, alias, type)
    IN  IF builder.panic # NoPanic THEN builder
        ELSE Returned(Some([builder.resources[1] EXCEPT
                 !.component_entity_mapper = @ \cup {type}]))

\* PrefabAppBuilder::register_prefab_aliased: the template descriptor is
\* registered first, the record descriptor of the same alias and type after
\* it, each with an expect.
register_prefab_aliased(resources, alias, type) ==
    IF resources = Absent THEN Panicked(resources, NoRegistry)
    ELSE LET p == register_aliased(resources[1].prefab_registry, resources[1].tagged,
                                   alias, type)
             with == Some([resources[1] EXCEPT !.prefab_registry = p.registry,
                                               !.tagged = p.tagged])
             c == register_internal(resources[1].component_registry, alias, type,
                                    [type |-> type])
         IN  IF p.result # Ok
             THEN Panicked(with, "prefab could not be registered")
             ELSE IF c.result # Ok
             THEN Panicked(with, "prefab data component could not be registered")
             ELSE Returned(Some([with[1] EXCEPT !.component_registry = c.registry]))

\* The four registrations of PrefabAppBuilder by the name of their kind.
Kinds == {"mappable component", "component", "non serializable component", "prefab"}

app_register(resources, kind, alias, type) ==
    IF kind = "prefab" THEN register_prefab_aliased(resources, alias, type)
    ELSE IF kind = "mappable component"
    THEN register_prefab_mappable_component_aliased(resources, alias, type)
    ELSE register_prefab_component_aliased(resources, alias, type)

\* A chain of registrations on the builder: a panic ends it.
RECURSIVE register_all(_, _)
register_all(resources, calls) ==
    IF calls = <<>> THEN Returned(resources)
    ELSE LET r == app_register(resources, calls[1][1], calls[1][2], calls[1][3])
         IN  IF r.panic # NoPanic THEN r ELSE register_all(r.resources, Tail(calls))

\* The components PrefabPlugin::build registers, Bevy's and the prefab
\* system's own, each under its alias.
DefaultComponents ==
    << <<"mappable component", "Parent", "Parent">>,
       <<"non serializable component", "GlobalTransform", "GlobalTransform">>,
       <<"component", "Transform", "Transform">>,
       <<"component", "MainPass", "MainPass">>,
       <<"component", "Draw", "Draw">>,
       <<"component", "Visible", "Visible">>,
       <<"component", "RenderPipelines", "RenderPipelines">>,
       <<"component", "PointLight", "PointLight">>,
       <<"component", "DirectionalLight", "DirectionalLight">>,
       <<"component", "Mesh", "Handle<Mesh>">>,
       <<"component", "Handle<StandardMaterial>", "Handle<StandardMaterial>">>,
       <<"component", "Handle<Prefab>", "Handle<Prefab>">>,
       <<"component", "PrefabNotInstantiatedTag", "PrefabNotInstantiatedTag">>,
       <<"component", "PrefabTransformOverride", "PrefabTransformOverride">>,
       <<"component", "PrefabConstruct", "PrefabConstruct">>,
       <<"component", "PrefabTypeUuid", "PrefabTypeUuid">> >>

\* builtin::primitives::register_primitives_prefabs
PrimitivesPrefabs ==
    << <<"prefab", "CubePrefab", "CubePrefab">>,
       <<"prefab", "UVSpherePrefab", "UVSpherePrefab">>,
       <<"prefab", "PlanePrefab", "PlanePrefab">>,
       <<"prefab", "CapsulePrefab", "CapsulePrefab">> >>

\* builtin::objects::register_objects_prefabs
ObjectsPrefabs ==
    << <<"prefab", "StaticMeshPrefab", "StaticMeshPrefab">>,
       <<"prefab", "PointLightPrefab", "PointLightPrefab">> >>

\* PrefabPlugin::default and its with_ methods
Plugins == [primitives_prefabs : BOOLEAN, objects_prefabs : BOOLEAN]

\* The commit of PrefabPlugin::build and of prefab_commit_startup_system:
\* the three registries are removed from the World and moved into a new
\* PrefabDeserializer.
commit(resources) == [deserializer |-> resources, resources |-> Absent]

\* The registrations of PrefabPlugin::build in their order.
registrations(self) ==
    DefaultComponents
        \o (IF self.primitives_prefabs THEN PrimitivesPrefabs ELSE <<>>)
        \o (IF self.objects_prefabs THEN ObjectsPrefabs ELSE <<>>)

\* PrefabPlugin::build, run by add_plugin
PrefabPlugin_build(self) ==
    /\ apc = "new"
    /\ \E r \in {register_all(Some(DefaultRegistries), registrations(self))} :
           IF r.panic # NoPanic
           THEN /\ apc' = "panicked"
                /\ apanic' = [call |-> <<"build">>, message |-> r.panic]
                /\ registries' = r.resources
                /\ UNCHANGED prefab_deserializer
           ELSE /\ apc' = "built"
                /\ registries' = commit(r.resources).resources
                /\ prefab_deserializer' = commit(r.resources).deserializer
                /\ UNCHANGED apanic
    /\ plugin' = Some(self)
    /\ UNCHANGED hosted
    /\ UNCHANGED decoders
    /\ UNCHANGED notApp

\* A registration of the host on the AppBuilder, before the App runs.
HostRegister(kind, alias, type) ==
    /\ apc \in {"new", "built"}
    /\ \E r \in {app_register(registries, kind, alias, type)} :
           /\ registries' = r.resources
           /\ IF r.panic # NoPanic
              THEN /\ apc' = "panicked"
                   /\ apanic' = [call |-> <<kind, alias, type>>, message |-> r.panic]
                   /\ UNCHANGED hosted
              ELSE /\ hosted' = hosted \cup {<<kind, alias, type>>}
                   /\ UNCHANGED <<apc, apanic>>
    /\ UNCHANGED <<plugin, prefab_deserializer>>
    /\ UNCHANGED decoders
    /\ UNCHANGED notApp

\* manager.rs: prefab_commit_startup_system, the first startup system of
\* the plugin.
prefab_commit_startup_system ==
    /\ apc = "built"
    /\ IF registries = Absent
       THEN /\ apc' = "panicked"
            /\ apanic' = [call |-> <<"startup">>, message |-> NoRegistry]
            /\ UNCHANGED <<registries, prefab_deserializer>>
       ELSE /\ apc' = "running"
            /\ registries' = commit(registries).resources
            /\ prefab_deserializer' = commit(registries).deserializer
            /\ UNCHANGED apanic
    /\ UNCHANGED <<plugin, hosted>>
    /\ UNCHANGED decoders
    /\ UNCHANGED notApp

\* The registrations of PrefabAppBuilder on registries that are in the
\* World, which the variables of the registries hold: a panic ends the
\* program.
AppRegister(kind, alias, type) ==
    /\ rlast.call.kind \notin {"host component", "host prefab"} \/ rlast.result.error = NoPanic
    /\ \E r \in {app_register(Some([component_registry |-> component_registry,
                                    prefab_registry |-> prefab_registry,
                                    tagged |-> tagged,
                                    component_entity_mapper |-> {}]),
                              kind, alias, type)} :
           /\ component_registry' = r.resources[1].component_registry
           /\ prefab_registry' = r.resources[1].prefab_registry
           /\ tagged' = r.resources[1].tagged
           /\ rlast' = [call |-> Registration(IF kind = "prefab" THEN "host prefab"
                                                    ELSE "host component", alias, type),
                        result |-> [error |-> r.panic, key |-> alias]]
           /\ registered' = IF r.panic # NoPanic THEN registered
                            ELSE IF kind = "prefab"
                            THEN registered \cup {<<"prefab", alias, type>>,
                                                  <<"component", alias, type>>}
                            ELSE registered \cup {<<"component", alias, type>>}
    /\ UNCHANGED notReg

HostNext ==
    \E kind \in {"component", "prefab"}, alias \in Aliases, type \in Types :
        AppRegister(kind, alias, type)

-----------------------------------------------------------------------------
(* de/mod.rs: decodes that share one PrefabDeserializer *)

\* The threads that decode, each with a clone of the PrefabDeserializer.
Threads == {1, 2}

EntityElement(x, components) == [kind |-> "Entity", id |-> x, components |-> components]

InstanceElement(alias, x) == [kind |-> alias, id |-> x, components |-> <<>>]

Document(variant, scene) == [variant |-> variant, scene |-> scene]

NoDocument == Document("", <<>>)

\* The documents the threads decode; each element writes its id.
Documents ==
    { Document("Prefab", <<>>),
      Document("Nope", << EntityElement(1, <<>>) >>),
      Document("Prefab", << EntityElement(1, << Fragment("Transform", "t") >>) >>),
      Document("Prefab", << EntityElement(1, <<>>), EntityElement(2, <<>>) >>),
      Document("Prefab", << EntityElement(2, <<>>), EntityElement(2, <<>>) >>),
      Document("Prefab", << EntityElement(1, << Fragment("Nope", "n") >>) >>),
      Document("Prefab", << InstanceElement("CubePrefab", 1), EntityElement(1, <<>>) >>),
      Document("Prefab", << EntityElement(2, << Fragment("GlobalTransform", "g") >>),
                            InstanceElement("CubePrefab", 1) >>) }

\* The locals of a decode: the document and how far it is read, the
\* collection of visit_map's IdValidation, the World of the Prefab, and what
\* the decode returned.
Idle ==
    [state |-> "idle", doc |-> NoDocument, pos |-> 0, ids |-> {}, world |-> <<>>,
     result |-> Absent]

Returns(local, result) ==
    [state |-> "done", doc |-> local.doc, pos |-> local.pos, ids |-> {}, world |-> <<>>,
     result |-> Some(result)]

DecodeErr(error) == [ok |-> FALSE, error |-> error, prefab |-> <<>>]

DecodeOk(variant, w) == [ok |-> TRUE, error |-> NoError, prefab |-> << variant, w >>]

\* PrefabDeserializer::visit_enum: PrefabVariant looks the variant up in the
\* prefab registry, and PrefabBody::visit_map starts with locals of its own.
visit_enum(resources, doc) ==
    IF find_by_name(resources.prefab_registry, doc.variant) = Absent
    THEN Returns([Idle EXCEPT !.doc = doc], DecodeErr(UnknownVariant(doc.variant)))
    ELSE [state |-> "body", doc |-> doc, pos |-> 1, ids |-> {}, world |-> << Blank >>,
          result |-> Absent]

\* IdentifiedComponentSeq over the component registry of the deserializer.
RECURSIVE shared_components(_, _, _)
shared_components(resources, components, entity) ==
    IF components = <<>> THEN [error |-> NoError, entity |-> entity]
    ELSE LET descriptor == find_by_name(resources.component_registry, Head(components).alias)
         IN  IF descriptor = Absent
             THEN [error |-> UnknownVariant(Head(components).alias), entity |-> entity]
             ELSE shared_components(resources, Tail(components),
                      Insert(entity, descriptor[1].type, Head(components).value))

\* One element of the scene, or the end of the document.
next_element(resources, local) ==
    IF local.pos > Len(local.doc.scene)
    THEN Returns(local, DecodeOk(local.doc.variant, local.world))
    ELSE LET element == local.doc.scene[local.pos]
             read == shared_components(resources, element.components, Blank)
             descriptor == find_by_name(resources.prefab_registry, element.kind)
         IN  IF element.kind # "Entity" /\ descriptor = Absent
             THEN Returns(local, DecodeErr(UnknownVariant(element.kind)))
             ELSE IF ~validate(local.ids, element.id)
             THEN Returns(local, DecodeErr(ConflictingId(element.id)))
             ELSE IF read.error # NoError
             THEN Returns(local, DecodeErr(read.error))
             ELSE [local EXCEPT
                      !.pos = @ + 1,
                      !.ids = @ \cup {element.id},
                      !.world = Append(@,
                          IF element.kind = "Entity" THEN read.entity
                          ELSE Insert(Insert(Blank, "PrefabNotInstantiatedTag", "tag"),
                                      "PrefabConstruct", descriptor[1].type))]

\* A whole decode with no other decode beside it.
RECURSIVE decode_from(_, _)
decode_from(resources, local) ==
    IF local.state = "done" THEN local.result[1]
    ELSE decode_from(resources, next_element(resources, local))

deserialize(resources, doc) == decode_from(resources, visit_enum(resources, doc))

locals_shared(all, thread, local) ==
    [t \in DOMAIN all |-> IF t = thread THEN local ELSE [all[t] EXCEPT !.ids = local.ids]]

\* The locals of visit_map belong to the call: a step of one decode leaves
\* those of the others alone.
locals(all, thread, local) == [all EXCEPT ![thread] = local]

\* A thread starts to decode a document with its PrefabDeserializer.
Deserialize(thread, doc) ==
    /\ prefab_deserializer # Absent
    /\ decoders[thread].state # "body"
    /\ decoders' = locals(decoders, thread, visit_enum(prefab_deserializer[1], doc))
    /\ UNCHANGED <<apc, plugin, registries, prefab_deserializer, hosted, apanic>>
    /\ UNCHANGED notApp

\* The thread reads the next element of its document.
NextElement(thread) ==
    /\ prefab_deserializer # Absent
    /\ decoders[thread].state = "body"
    /\ decoders' = locals(decoders, thread,
                          next_element(prefab_deserializer[1], decoders[thread]))
    /\ UNCHANGED <<apc, plugin, registries, prefab_deserializer, hosted, apanic>>
    /\ UNCHANGED notApp

SharedNext ==
    \/ \E self \in Plugins : PrefabPlugin_build(self)
    \/ \E thread \in Threads, doc \in Documents : Deserialize(thread, doc)
    \/ \E thread \in Threads : NextElement(thread)

-----------------------------------------------------------------------------
(* The App before the host has built it *)

\* App::build: a World without resources.
AppInit ==
    /\ apc = "new"
    /\ plugin = Absent
    /\ registries = Absent
    /\ prefab_deserializer = Absent
    /\ hosted = {}
    /\ apanic = [call |-> <<>>, message |-> NoPanic]
    /\ decoders = [thread \in Threads |-> Idle]

StartupNext ==
    \/ \E self \in Plugins : PrefabPlugin_build(self)
    \/ \E kind \in Kinds, alias \in Aliases, type \in Types : HostRegister(kind, alias, type)
    \/ prefab_commit_startup_system

-----------------------------------------------------------------------------
(* registry/mod.rs: shorten_name, on strings as sequences of characters *)

RECURSIVE Reverse(_)
Reverse(chars) ==
    IF chars = <<>> THEN <<>> ELSE Append(Reverse(Tail(chars)), Head(chars))

\* The while loop of shorten_name over the reversed characters; k starts at
\* usize::MAX, a depth no name reaches, written -1 here.
RECURSIVE shorten_loop(_, _, _, _)
shorten_loop(chars, output, depth, k) ==
    IF chars = <<>> THEN output
    ELSE LET c == Head(chars)
             rest == Tail(chars)
         IN  IF c = ">" THEN shorten_loop(rest, Append(output, ">"), depth + 1, k)
             ELSE IF c = "<" THEN shorten_loop(rest, Append(output, "<"), depth - 1, k)
             ELSE IF c = ":"
             THEN IF depth = 0 THEN output
                  ELSE shorten_loop(IF rest = <<>> THEN rest ELSE Tail(rest),
                                    output, depth, depth)
             ELSE IF k # depth THEN shorten_loop(rest, Append(output, c), depth, k)
             ELSE shorten_loop(rest, output, depth, k)

shorten_name(input) == Reverse(shorten_loop(Reverse(input), <<>>, 0, -1))

\* std::any::type_name of the types of the model: an optional module path,
\* a name, and for a generic type its arguments between < and >, separated
\* by a comma and a space.
Modules == { <<>>, <<"m", ":", ":">> }

Qualified(names) == { path \o name : path \in Modules, name \in names }

RECURSIVE Join(_)
Join(args) ==
    IF Len(args) = 1 THEN args[1] ELSE args[1] \o <<",", " ">> \o Join(Tail(args))

Generic(name, args) == name \o <<"<">> \o Join(args) \o <<">">>

Arguments ==
    Qualified({ <<"X">> })
        \cup { <<"Y">>, <<"m", ":", ":">> \o Generic(<<"G">>, << <<"m", ":", ":", "X">> >>) }

ArgLists == UNION { [1..n -> Arguments] : n \in 1..MaxArgs }

TypeNames == Qualified({ <<"F">> } \cup { Generic(<<"F">>, args) : args \in ArgLists })

\* PrefabAppBuilder::register_prefab_component and its like compute the
\* default alias of a type.
ShortenName(input) ==
    /\ aliased' = << [input |-> input, alias |-> shorten_name(input)] >>
                        \o (IF aliased = <<>> THEN <<>> ELSE << aliased[1] >>)
    /\ UNCHANGED notAl

AliasInit == aliased = <<>>

AliasNext == \E input \in TypeNames : ShortenName(input)

-----------------------------------------------------------------------------
(* manager.rs *)

\* enqueue_prefab_not_instantiated: the query's order is not fixed, so the
\* queue is a set and a pop takes any of its elements.
enqueue_prefab_not_instantiated(w) ==
    { <<e, Get(w[e], "Handle")>> : e \in { i \in 1..Len(w) :
            Has(w[i], "Handle") /\ Has(w[i], "PrefabNotInstantiatedTag") } }

AssetsGetUnloaded(handle) == Some(Assets[handle])

\* The handle of the asset that PrefabLoader::load publishes.
DecodedHandle == "decoded.prefab"

\* prefabs.get(&source_prefab): an asset of the pool, or the one the loader
\* has published.
AssetsGet(handle) ==
    IF handle = DecodedHandle
    THEN IF pool # <<>> THEN Some(pool[1]) ELSE Absent
    ELSE IF handle \in loaded
    THEN Some([Assets[handle] EXCEPT !.data = defaults[handle]]) ELSE Absent

\* The type check of lines 59-72: the root names an expected type and the
\* source has another.
WrongExpectedSourcePrefab(root, prefab) ==
    Has(root, "PrefabTypeUuid") /\ TypeUuidOf(prefab.type) # Get(root, "PrefabTypeUuid")

FailKeepingTag(root) == Insert(root, "PrefabErrorTag", "WrongExpectedSourcePrefab")

FailWithoutLoading(root) ==
    Insert(Remove(root, "PrefabNotInstantiatedTag"),
           "PrefabErrorTag", "WrongExpectedSourcePrefab")

prefab_to_instance_reusing(prefab, root_entity, n) ==
    [t \in 1..Len(prefab.world) |->
        IF t = prefab.root_entity THEN n + 1
        ELSE n + Cardinality({u \in 1..t : u # prefab.root_entity})]

\* The handle map of one expansion; the prefab's entities are visited in the
\* order of the prefab world and n is the number of entities of the target.
prefab_to_instance(prefab, root_entity, n) ==
    [t \in 1..Len(prefab.world) |->
        IF t = prefab.root_entity THEN root_entity
        ELSE n + Cardinality({u \in 1..t : u # prefab.root_entity})]

\* Lines 76-138: the world once the prefab's entities are copied over.
CopyEntities(w, prefab, root_entity, map) ==
    [i \in 1..(Len(w) + Len(prefab.world) - 1) |->
        IF i = root_entity
        THEN CopyRootArchetype(prefab.world[prefab.root_entity], w[i])
        ELSE IF i <= Len(w) THEN w[i]
        ELSE LET t == CHOOSE t \in DOMAIN map : map[t] = i
             IN  CopyArchetype(prefab.world[t], Blank)]

MapWithoutParenting(entity, map, root_entity) == map_entity_components(entity, map)

MapAndParentUnderRoot(entity, map, root_entity) ==
    Insert(map_entity_components(entity, map), "Parent", root_entity)

\* Lines 140-152, one instance entity.
MapAndParent(entity, map, root_entity) ==
    LET mapped == map_entity_components(entity, map)
    IN  IF Has(mapped, "Parent") THEN mapped ELSE Insert(mapped, "Parent", root_entity)

MapAndParentAll(w, map, root_entity) ==
    [i \in 1..Len(w) |->
        IF \E t \in DOMAIN map : map[t] = i
        THEN MapAndParent(w[i], map, root_entity) ELSE w[i]]

OverrideTransformWhole(transform, root) ==
    IF Has(root, "PrefabTransformOverride")
    THEN LET o == Get(root, "PrefabTransformOverride")
         IN  IF \E f \in DOMAIN o : o[f] # Absent
             THEN [f \in DOMAIN transform |-> IF o[f] # Absent THEN o[f][1] ELSE 0]
             ELSE transform
    ELSE transform

\* Lines 160-171: the prefab's transform under the instance's overrides.
OverrideTransform(transform, root) ==
    IF Has(root, "PrefabTransformOverride")
    THEN LET o == Get(root, "PrefabTransformOverride")
         IN  [f \in DOMAIN transform |-> IF o[f] # Absent THEN o[f][1] ELSE transform[f]]
    ELSE transform

FinishRootKeepingTag(root, prefab) ==
    [root EXCEPT !["GlobalTransform"] = Some("default"),
                 !["Transform"] = Some(OverrideTransform(prefab.transform, root)),
                 !["Children"] = Some("default")]

\* Lines 154-173 on the root entity.
FinishRoot(root, prefab) ==
    LET cleared == Remove(Remove(root, "PrefabNotInstantiatedTag"),
                          "PrefabTransformOverride")
    IN  [cleared EXCEPT !["GlobalTransform"] = Some("default"),
                        !["Transform"] = Some(OverrideTransform(prefab.transform, root)),
                        !["Children"] = Some("default")]

\* Lines 175-185: the construct function the root stores, which builds from
\* a default value of its own, or the prefab's data; self is the prefab's
\* data after the call.
ConstructRoot(root, prefab) ==
    IF Has(root, "PrefabConstruct")
    THEN [construct_instance(DefaultData, Get(root, "PrefabConstruct"), root)
             EXCEPT !.self = prefab.data]
    ELSE construct_instance(prefab.data, prefab.type, root)

\* Lines 74-185 up to the constructor's result.
Expand(w, prefab, root_entity) ==
    LET map    == prefab_to_instance(prefab, root_entity, Len(w))
        copied == CopyEntities(w, prefab, root_entity, map)
        mapped == MapAndParentAll(copied, map, root_entity)
        built  == ConstructRoot(FinishRoot(mapped[root_entity], prefab), prefab)
    IN  [world |-> [mapped EXCEPT ![root_entity] = built.entity],
         map |-> map, ok |-> built.ok, data |-> built.self]

NoStep == [kind |-> "none", root |-> 0, handle |-> "", before |-> <<>>, map |-> <<>>]

Step(kind, root, handle, map) ==
    [kind |-> kind, root |-> root, handle |-> handle, before |-> world, map |-> map]

\* command.rs: SpawnPrefab::write, with an optional Name in its bundle.
SpawnPrefab(handle, bundle) ==
    /\ pc = "idle"
    /\ Cardinality({i \in 1..Len(world) : spawnedBy[i] = 0}) < MaxRoots
    /\ LET root == [bundle EXCEPT !["Handle"] = Some(handle),
                                  !["Transform"] = Some(DefaultTransform),
                                  !["PrefabNotInstantiatedTag"] = Some("tag")]
       IN  /\ world' = Append(world, root)
           /\ born' = Append(born, root)
    /\ spawnedBy' = Append(spawnedBy, 0)
    /\ last' = NoStep
    /\ UNCHANGED <<loaded, defaults, pc, prefabs_queue, blacklist, expansions>>
    /\ UNCHANGED notSched

\* The asset server finishes loading a prefab; Assets<Prefab> is borrowed
\* by prefab_spawner for the length of a pass.
LoadAsset(handle) ==
    /\ pc = "idle"
    /\ handle \notin loaded
    /\ loaded' = loaded \cup {handle}
    /\ last' = NoStep
    /\ UNCHANGED <<world, defaults, pc, prefabs_queue, blacklist, born, spawnedBy, expansions>>
    /\ UNCHANGED notSched

\* prefab_managing_system up to its call of prefab_spawner.
prefab_managing_system ==
    /\ pc = "idle"
    /\ prefabs_queue' = enqueue_prefab_not_instantiated(world)
    /\ pc' = IF prefabs_queue' = {} THEN "idle" ELSE "spawner"
    /\ blacklist' = {}
    /\ last' = NoStep
    /\ UNCHANGED <<world, loaded, defaults, born, spawnedBy, expansions>>
    /\ UNCHANGED notSched

\* The handles that the pending nodes of a world name, but for some nodes.
Waiting(w, but) ==
    { Get(w[i], "Handle") : i \in { e \in 1..Len(w) \ but :
            Has(w[e], "Handle") /\ Has(w[e], "PrefabNotInstantiatedTag") } }

\* One turn of prefab_spawner's inner loop (lines 45-186).  An expansion is
\* recorded with the assets that pending nodes, the new ones included, wait
\* for at that moment.
prefab_spawner_pop ==
    /\ pc = "spawner"
    /\ \E item \in prefabs_queue :
        LET root_entity == item[1]
            source_prefab == item[2]
            found == AssetsGet(source_prefab)
        IN  /\ prefabs_queue' = prefabs_queue \ {item}
            /\ IF found = Absent
               THEN /\ blacklist' = blacklist \cup {root_entity}
                    /\ last' = Step("missing", root_entity, source_prefab, <<>>)
                    /\ UNCHANGED <<world, defaults, pc, born, spawnedBy, expansions>>
               ELSE LET prefab == found[1] IN
                    IF WrongExpectedSourcePrefab(world[root_entity], prefab)
                    THEN /\ world' = [world EXCEPT ![root_entity] = FailWithoutLoading(@)]
                         /\ last' = Step("mismatch", root_entity, source_prefab, <<>>)
                         /\ UNCHANGED <<defaults, pc, blacklist, born, spawnedBy, expansions>>
                    ELSE IF \E t \in 1..Len(prefab.world) : NotRegistered(prefab.world[t])
                    THEN /\ pc' = "panicked"
                         /\ last' = Step("panic", root_entity, source_prefab, <<>>)
                         /\ UNCHANGED <<world, defaults, blacklist, born, spawnedBy, expansions>>
                    ELSE \E x \in {Expand(world, prefab, root_entity)} :
                         /\ world' = x.world
                         /\ defaults' = IF source_prefab \in DOMAIN defaults
                                         THEN [defaults EXCEPT ![source_prefab] = x.data]
                                         ELSE defaults
                         /\ born' = born \o SubSeq(x.world, Len(world) + 1, Len(x.world))
                         /\ spawnedBy' = spawnedBy \o
                                [i \in 1..(Len(x.world) - Len(world)) |-> root_entity]
                         /\ expansions' = Append(expansions,
                                [root |-> root_entity, handle |-> source_prefab,
                                 map |-> x.map, n |-> Len(world),
                                 waiting |-> (Waiting(world, {root_entity})
                                                 \cup Waiting(prefab.world, {prefab.root_entity}))
                                             \ loaded])
                         /\ pc' = IF x.ok THEN pc ELSE "panicked"
                         /\ last' = Step(IF x.ok THEN "expanded" ELSE "panic",
                                         root_entity, source_prefab, x.map)
                         /\ UNCHANGED blacklist
    /\ UNCHANGED <<loaded, notSched>>

prefab_spawner_returning ==
    /\ pc = "spawner"
    /\ prefabs_queue = {}
    /\ pc' = "idle"
    /\ last' = NoStep
    /\ UNCHANGED <<world, loaded, defaults, prefabs_queue, blacklist, born, spawnedBy, expansions>>
    /\ UNCHANGED notSched

\* Lines 188-196: the queue is drained.
prefab_spawner_enqueue ==
    /\ pc = "spawner"
    /\ prefabs_queue = {}
    /\ prefabs_queue' = { item \in enqueue_prefab_not_instantiated(world) :
                            item[1] \notin blacklist }
    /\ pc' = IF prefabs_queue' = {} THEN "idle" ELSE "spawner"
    /\ last' = NoStep
    /\ UNCHANGED <<world, loaded, defaults, blacklist, born, spawnedBy, expansions>>
    /\ UNCHANGED notSched

SchedInit ==
    /\ world = <<>>
    /\ loaded = {}
    /\ defaults = [handle \in DOMAIN Assets |-> Assets[handle].data]
    /\ pc = "idle"
    /\ prefabs_queue = {}
    /\ blacklist = {}
    /\ born = <<>>
    /\ spawnedBy = <<>>
    /\ expansions = <<>>
    /\ last = NoStep

Init == SchedInit /\ DecInit /\ RegInit /\ OverrideInit /\ AliasInit /\ AppInit

Bundles == {Blank, Insert(Blank, "Name", "mine")}

Next ==
    \/ \E handle \in Handles, bundle \in Bundles : SpawnPrefab(handle, bundle)
    \/ \E handle \in Handles : LoadAsset(handle)
    \/ prefab_managing_system
    \/ prefab_spawner_pop
    \/ prefab_spawner_enqueue

Spec == Init /\ [][Next]_vars

\* The override patches the host attaches to the roots it spawns for the
\* Lamp document, whose data has the fields a and b.
InstancePatches ==
    { [f \in {"a"} |-> I32(5)], [f \in {"b"} |-> I32(6)], [f \in {"a", "b"} |-> I32(7)] }

PatchedBundles ==
    {Blank} \cup { Insert(Blank, "BoxedPrefabOverrides", patch) : patch \in InstancePatches }

\* The roots are spawned for the Lamp document, with or without a patch.
PatchedNext ==
    \/ \E bundle \in PatchedBundles : SpawnPrefab("lamp.prefab", bundle)
    \/ LoadAsset("lamp.prefab")
    \/ prefab_managing_system
    \/ prefab_spawner_pop
    \/ prefab_spawner_enqueue

SpecPatched == Init /\ [][PatchedNext]_vars

\* The host runs prefab_managing_system at every tick (app.rs lines 107-114),
\* and prefab_spawner's loop runs on without waiting for anything; the roots
\* are spawned for the Lamp and the Room documents.
LiveNext ==
    \/ \E handle \in {"lamp.prefab", "room.prefab"} : SpawnPrefab(handle, Blank)
    \/ \E handle \in {"lamp.prefab", "room.prefab"} : LoadAsset(handle)
    \/ prefab_managing_system
    \/ prefab_spawner_pop
    \/ prefab_spawner_enqueue

SpecLive ==
    /\ Init /\ [][LiveNext]_vars
    /\ WF_vars(prefab_managing_system)
    /\ WF_vars(prefab_spawner_pop)
    /\ WF_vars(prefab_spawner_enqueue)

\* The pool holds documents with nested references of every kind: to a loaded
\* or an unloaded document, to the document itself, and with overrides. The
\* target graph has room for MaxNodes nodes.
MaxNodes == 8

NestedHandles == {"lamp.prefab", LoopHandle, PatchedHandle}

NestedNext ==
    \/ \E handle \in NestedHandles : SpawnPrefab(handle, Blank)
    \/ \E handle \in NestedHandles : LoadAsset(handle)
    \/ prefab_managing_system
    \/ Len(world) < MaxNodes /\ prefab_spawner_pop
    \/ prefab_spawner_enqueue

SpecNested ==
    /\ Init /\ [][NestedNext]_vars
    /\ WF_vars(prefab_managing_system)
    /\ WF_vars(Len(world) < MaxNodes /\ prefab_spawner_pop)
    /\ WF_vars(prefab_spawner_enqueue)

SpecDecode == Init /\ [][DecodeNext]_vars

SpecRegistry == Init /\ [][RegistryNext]_vars

SpecOverride == Init /\ [][OverrideNext]_vars

SpecPatch == Init /\ [][PatchNext]_vars

SpecStruct == Init /\ [][StructNext]_vars

SpecStartup == Init /\ [][StartupNext]_vars

SpecHost == Init /\ [][HostNext]_vars

SpecShared == Init /\ [][SharedNext]_vars

\* The decoder on documents whose elements carry component sequences and
\* number themselves in the order they are written.
ComponentNext ==
    \/ \E components \in DocComponents : BodyComponents(components)
    \/ BodyScene
    \/ \E components \in DocComponents : EntityInstance(Some(Len(dworld)), components)
    \/ \E components \in DocComponents :
            PrefabInstance("Cube", Some(Len(dworld)), Absent, Absent, components)
    \/ SceneEnd
    \/ BodyEnd
    \/ LoadOk
    \/ LoadErr
    \/ \E alias \in TopAliases : Load(alias)

SpecComponent == Init /\ [][ComponentNext]_vars

SpecAlias == Init /\ [][AliasNext]_vars

\* The id the documents of the round trip write for their root: none of the
\* ids their scene elements write.
RootId == MaxElements + 1

\* The component sequences the scene elements of the round trip write, and
\* the one their root writes.
SceneComponents == { <<>>, << Fragment("Name", "a") >> }

RootComponents == { << Fragment("Name", "r") >> }

\* The asset server finishes loading the source of the nested Lamps once the
\* document is published.
LoadNested ==
    /\ pool # <<>>
    /\ LoadAsset("lamp.prefab")

\* SpawnPrefab::write for the published document, into an empty world.
SpawnDecoded ==
    /\ pool # <<>>
    /\ "lamp.prefab" \in loaded
    /\ world = <<>>
    /\ SpawnPrefab(DecodedHandle, Blank)

\* A document is decoded, published, and instantiated in an empty world.
RoundTripNext ==
    \/ BodyId(RootId)
    \/ \E components \in RootComponents : BodyComponents(components)
    \/ BodyScene
    \/ \E x \in Ids, components \in SceneComponents : EntityInstance(Some(x), components)
    \/ \E x \in Ids, parent \in {Absent, Some(1)} :
            PrefabInstance("Lamp", Some(x), Some("lamp.prefab"), parent, <<>>)
    \/ SceneEnd
    \/ BodyEnd
    \/ LoadOk
    \/ LoadErr
    \/ \E alias \in TopAliases : Load(alias)
    \/ LoadNested
    \/ SpawnDecoded
    \/ prefab_managing_system
    \/ prefab_spawner_pop
    \/ prefab_spawner_enqueue

SpecRoundTrip == Init /\ [][RoundTripNext]_vars

-----------------------------------------------------------------------------
(* The scheduler's claims *)

Range(f) == { f[x] : x \in DOMAIN f }

Entities == 1..Len(world)

ExpansionsOf(e) == { k \in 1..Len(expansions) : expansions[k].root = e }

\* The record types a document authors, which the scheduler itself never writes.
AuthoredTypes == {"Name"}

\* The entity entered the world pending, naming an asset that is still not loaded.
PendingUnloaded(e) ==
    /\ Has(born[e], "PrefabNotInstantiatedTag")
    /\ Has(born[e], "Handle")
    /\ Get(born[e], "Handle") \notin loaded

\* C1: a pending node whose asset is not loaded is left exactly as it entered
\* the world by every step of every pass (marker, handle, overrides and all
\* other records), and no node is spawned for it.
C1_UnloadedNodeUntouched ==
    \A e \in Entities :
        PendingUnloaded(e) =>
            /\ world[e] = born[e]
            /\ \A i \in Entities : spawnedBy[i] # e

\* A pass has just failed the lookup of a node while other nodes were expanded.
C1_Witness ==
    /\ last.kind = "missing"
    /\ PendingUnloaded(last.root)
    /\ last.root \in blacklist
    /\ expansions # <<>>

\* C2: no node is the root of more than one expansion, over all passes and
\* all turns of the loop of one pass.
C2_ExpandedAtMostOnce ==
    \A e \in Entities : Cardinality(ExpansionsOf(e)) <= 1

\* A root spawned by a command after an earlier expansion has been expanded too:
\* a later pass ran over the world that holds the earlier expansion's root.
C2_Witness ==
    \E j, k \in 1..Len(expansions) :
        /\ j < k
        /\ spawnedBy[expansions[k].root] = 0
        /\ expansions[k].root > expansions[j].n
        /\ pc = "idle"

\* C3: on a type mismatch the step removes the Pending marker and attaches the
\* Error marker with the type-mismatch reason, changes nothing else and spawns
\* nothing; a node with the Error marker is never queued or expanded.
C3_TypeMismatchIsTerminal ==
    /\ last.kind = "mismatch" =>
        /\ Len(world) = Len(last.before)
        /\ \A i \in Entities : i # last.root => world[i] = last.before[i]
        /\ world[last.root] =
              [last.before[last.root] EXCEPT
                  !["PrefabNotInstantiatedTag"] = Absent,
                  !["PrefabErrorTag"] = Some("WrongExpectedSourcePrefab")]
    /\ \A e \in Entities :
        Has(world[e], "PrefabErrorTag") =>
            /\ ~Has(world[e], "PrefabNotInstantiatedTag")
            /\ \A item \in prefabs_queue : item[1] # e
            /\ ExpansionsOf(e) = {}
            /\ \A i \in Entities : spawnedBy[i] # e

\* A later pass has expanded a node while another one carries the Error marker.
C3_Witness ==
    /\ last.kind = "expanded"
    /\ \E e \in Entities :
        /\ Has(world[e], "PrefabErrorTag")
        /\ e <= expansions[Len(expansions)].n
        /\ spawnedBy[last.root] = 0
        /\ last.root > e

\* C4: an expansion keeps the value of every record the root already had and
\* copies onto the root every record of the prefab's root that it lacked.
C4_RootCopyIfAbsent ==
    last.kind = "expanded" =>
        LET prefab == Assets[last.handle]
            from == prefab.world[prefab.root_entity]
            before == last.before[last.root]
        IN  \A c \in AuthoredTypes :
                Has(from, c) =>
                    world[last.root][c] = IF Has(before, c) THEN before[c] ELSE from[c]

\* C5: every expansion's handle map is injective, sends the prefab's root to the
\* expansion's root and every other prefab entity to an entity that did not
\* exist before the expansion; two expansions have different roots and share
\* no entity apart from those roots.
C5_ExpansionsDisjoint ==
    \A k \in 1..Len(expansions) :
        LET x == expansions[k]
            prefab == Assets[x.handle]
        IN  /\ DOMAIN x.map = 1..Len(prefab.world)
            /\ \A t, u \in DOMAIN x.map : x.map[t] = x.map[u] => t = u
            /\ x.map[prefab.root_entity] = x.root
            /\ \A t \in DOMAIN x.map :
                  t # prefab.root_entity =>
                      /\ x.map[t] > x.n
                      /\ x.map[t] \in Entities
                      /\ spawnedBy[x.map[t]] = x.root
            /\ \A j \in 1..Len(expansions) :
                  j # k =>
                      /\ expansions[j].root # x.root
                      /\ Range(x.map) \cap Range(expansions[j].map)
                            \subseteq {x.root, expansions[j].root}

\* The same prefab, with more than one entity, has been expanded twice.
C5_Witness ==
    \E j, k \in 1..Len(expansions) :
        /\ j # k
        /\ expansions[j].handle = expansions[k].handle
        /\ Len(Assets[expansions[j].handle].world) > 1

\* C6: right after an expansion, the Parent of every entity the expansion
\* created is the entity its handle map gives for the Parent in the prefab.
C6_ReferencesRemapped ==
    last.kind = "expanded" =>
        LET prefab == Assets[last.handle]
        IN  \A t \in DOMAIN last.map :
                ( /\ t # prefab.root_entity
                  /\ Has(prefab.world[t], "Parent")
                  /\ Get(prefab.world[t], "Parent") \in DOMAIN last.map ) =>
                    world[last.map[t]]["Parent"] =
                        Some(last.map[Get(prefab.world[t], "Parent")])

\* An expansion whose map moves a referenced prefab entity to another number.
C6_Witness ==
    /\ last.kind = "expanded"
    /\ \E t \in DOMAIN last.map :
        /\ t # Assets[last.handle].root_entity
        /\ Has(Assets[last.handle].world[t], "Parent")
        /\ last.map[Get(Assets[last.handle].world[t], "Parent")]
              # Get(Assets[last.handle].world[t], "Parent")

-----------------------------------------------------------------------------
(* The decoder's claims *)

C9_SourceRequirement ==
    (dlast.kind = "prefab" /\ derror.msg # "conflicting id") =>
        LET required == PrefabDescriptors[dlast.alias].source_prefab_required
        IN  /\ (~required /\ dlast.source # Absent) =>
                    (dpc = "failed" /\ derror = SourceNotUsed)
            /\ (required /\ dlast.source = Absent) =>
                    (dpc = "failed" /\ derror = MissingSource)
            /\ (required <=> dlast.source # Absent) =>
                    (dpc = "scene" /\ derror = NoError)

\* The second element of a scene is a prefab built by code that writes a source.
C9_Witness ==
    /\ dlast.kind = "prefab"
    /\ dlast.alias = "Cube"
    /\ dlast.source # Absent
    /\ dpc = "failed"
    /\ Len(declared) = 1

-----------------------------------------------------------------------------
(* The registries' claims *)

\* C10: a registration succeeds exactly when its alias, its type and (for a
\* prefab) its uuid are all new; a failure reports one of three different
\* errors, and the key the error blames was registered before the call.
C10_RegistrationErrors ==
    rlast.call.kind # "none" =>
        LET call == rlast.call
            aliasNew == call.alias \notin call.named
            typeNew == call.type \notin call.typed
            uuidNew == call.kind = "prefab" => TYPE_UUID(call.type) \notin call.tagged
        IN  /\ rlast.result = Ok <=> (aliasNew /\ typeNew /\ uuidNew)
            /\ rlast.result \in {Ok, AliasAlreadyRegistered(call.alias),
                                 TypeAlreadyRegistered(call.type),
                                 UuidAlreadyRegistered(call.type)}
            /\ rlast.result = AliasAlreadyRegistered(call.alias) => ~aliasNew
            /\ rlast.result = TypeAlreadyRegistered(call.type) => ~typeNew
            /\ rlast.result = UuidAlreadyRegistered(call.type) => ~uuidNew

\* A registered type has been registered again under a new alias and refused.
C10_Witness ==
    /\ rlast.result = TypeAlreadyRegistered(rlast.call.type)
    /\ rlast.call.alias \notin rlast.call.named

\* C11: a registration that fails leaves the descriptor list, the alias table
\* and the type table of both registries and the table by uuid exactly as
\* they were before the call.
C11_FailedRegistrationChangesNothing ==
    rlast.result # Ok =>
        /\ component_registry = rlast.call.before.component_registry
        /\ prefab_registry = rlast.call.before.prefab_registry
        /\ tagged = rlast.call.before.tagged

\* A prefab whose uuid is new has been refused for its alias, after other
\* registrations succeeded.
C11_Witness ==
    /\ rlast.call.kind = "prefab"
    /\ rlast.result = AliasAlreadyRegistered(rlast.call.alias)
    /\ TYPE_UUID(rlast.call.type) \notin rlast.call.tagged
    /\ Len(prefab_registry.contents) > 1

RegistryOf(kind) == IF kind = "prefab" THEN prefab_registry ELSE component_registry

\* C12: in each registry, the lookups by alias a and by type t give the same
\* descriptor exactly when one successful call registered a with t; a lookup
\* gives nothing for a key no successful call registered; the alias table,
\* the type table and the descriptor list have the same number of entries.
C12_LookupsAgree ==
    \A kind \in {"component", "prefab"} :
        LET registry == RegistryOf(kind)
        IN  /\ \A a \in Aliases, t \in Types :
                  ( /\ find_by_name(registry, a) # Absent
                    /\ find_by_name(registry, a) = find_by_type(registry, t) )
                  <=> <<kind, a, t>> \in registered
            /\ \A a \in Aliases :
                  (\A t \in Types : <<kind, a, t>> \notin registered)
                      => find_by_name(registry, a) = Absent
            /\ \A t \in Types :
                  (\A a \in Aliases : <<kind, a, t>> \notin registered)
                      => find_by_type(registry, t) = Absent
            /\ Cardinality(DOMAIN registry.named) = Len(registry.contents)
            /\ Cardinality(DOMAIN registry.typed) = Len(registry.contents)

\* A registry holds two descriptors and has just refused a registered type
\* under an alias that is still unknown to it.
C12_Witness ==
    /\ rlast.call.kind = "component"
    /\ rlast.result = TypeAlreadyRegistered(rlast.call.type)
    /\ Len(component_registry.contents) = 2
    /\ find_by_name(component_registry, rlast.call.alias) = Absent
    /\ find_by_type(component_registry, rlast.call.type) # Absent

-----------------------------------------------------------------------------
(* The remapping claims *)

-----------------------------------------------------------------------------
(* The loader's claims *)

\* C15: the pool holds the Prefabs of the decodes that ran to completion and
\* nothing else: it is empty while no decode has completed, whatever decodes
\* have failed, and once the loader is idle it is exactly the completed ones.
C15_NoPartialTemplatePublished ==
    /\ Len(pool) <= Len(completed)
    /\ \A k \in 1..Len(pool) : pool[k] = completed[k]
    /\ dpc \in {"idle", "failed"} => pool = completed

\* A load has just returned the error of a decode that failed on its second
\* scene element.
C15_Witness ==
    /\ dpc = "idle"
    /\ derror # NoError
    /\ Len(declared) = 1
    /\ pool = <<>>

-----------------------------------------------------------------------------
(* The overrides' claims *)

\* C16: applying a patch sets every field the patch names to the patch's
\* value (for a vector, every axis the patch supplies) and leaves every other
\* field, and every other axis, as it was.
C16_PatchSetsExactlyItsFields ==
    oresult # Absent =>
        LET result == oresult[1] IN
        /\ DOMAIN result = DOMAIN otarget
        /\ \A f \in DOMAIN otarget :
              IF f \notin DOMAIN opatch THEN result[f] = otarget[f]
              ELSE IF opatch[f].type = "Vec2Override"
              THEN /\ result[f].type = "Vec2"
                   /\ result[f].x = IF opatch[f].x # Absent THEN opatch[f].x[1]
                                                            ELSE otarget[f].x
                   /\ result[f].y = IF opatch[f].y # Absent THEN opatch[f].y[1]
                                                            ELSE otarget[f].y
              ELSE result[f] = opatch[f]

\* A patch that names one primitive field and one axis of the vector has been
\* applied to a record whose other fields are not at their prefabs.
C16_Witness ==
    /\ oresult # Absent
    /\ DOMAIN opatch = {"a", "v"}
    /\ opatch["v"].x # Absent
    /\ opatch["v"].y = Absent
    /\ otarget["b"] = I32(1)
    /\ otarget["v"].y = 1

-----------------------------------------------------------------------------
(* C20 *)

\* The fragments of a sequence that are the last to name their alias.
LastOfAlias(components) ==
    { i \in 1..Len(components) :
        \A j \in (i + 1)..Len(components) : components[j].alias # components[i].alias }

\* The entity the component sequence last read was decoded onto.
FragmentTarget == IF dlast.kind = "components" THEN dworld[1] ELSE dworld[Len(dworld)]

\* The first fragment of the sequence last read whose decoding fails, if any.
FirstFailing(components) ==
    { i \in 1..Len(components) :
        /\ IdentifiedComponent(components[i], Blank).error # NoError
        /\ \A j \in 1..(i - 1) : IdentifiedComponent(components[j], Blank).error = NoError }

\* C20 as amended: decoding a fragment whose alias was registered with
\* ComponentDescriptorRegistry::register attaches the record of that alias
\* with the authored value (the last one written for the alias); an alias
\* registered as non serializable attaches the default of its type, a
\* private alias attaches nothing, and an entity element ends with no record
\* its fragments did not name.  A sequence whose first failing fragment has an
\* unregistered alias fails the decode with an error naming that alias.
C20_FragmentAttachesAuthoredRecord ==
    dlast.kind \in {"entity", "prefab", "components"} =>
        LET components == dlast.components IN
        /\ dpc # "failed" =>
              /\ \A i \in LastOfAlias(components) :
                    /\ components[i].alias \in DOMAIN ComponentDescriptors
                    /\ LET descriptor == ComponentDescriptors[components[i].alias] IN
                       /\ descriptor.de = "register" =>
                             FragmentTarget[descriptor.type] = Some(components[i].value)
                       /\ descriptor.de = "register_non_serializable" =>
                             FragmentTarget[descriptor.type] = Some(DefaultComponent)
                       /\ (descriptor.de = "register_private" /\ dlast.kind = "entity") =>
                             FragmentTarget[descriptor.type] = Absent
              /\ dlast.kind = "entity" =>
                    \A c \in ComponentTypes :
                        Has(FragmentTarget, c) =>
                            \E i \in 1..Len(components) :
                                /\ components[i].alias \in DOMAIN ComponentDescriptors
                                /\ ComponentDescriptors[components[i].alias].type = c
        /\ \A i \in FirstFailing(components) :
              components[i].alias \notin DOMAIN ComponentDescriptors =>
                  /\ dpc = "failed"
                  /\ derror = UnknownVariant(components[i].alias)

\* An entity element written with Name("a") and then Name("b") has been
\* decoded and carries Name("b").
C20_Witness ==
    /\ dpc = "scene"
    /\ dlast.kind = "entity"
    /\ dlast.components = << Fragment("Name", "a"), Fragment("Name", "b") >>
    /\ dworld[Len(dworld)]["Name"] = Some("b")

\* C20 as stated: every fragment with a registered alias attaches the record
\* of that alias with the authored value.
C20_RegisteredAliasAttachesAuthored ==
    (dlast.kind \in {"entity", "prefab", "components"} /\ dpc # "failed") =>
        \A i \in LastOfAlias(dlast.components) :
            dlast.components[i].alias \in DOMAIN ComponentDescriptors =>
                FragmentTarget[ComponentDescriptors[dlast.components[i].alias].type]
                    = Some(dlast.components[i].value)

-----------------------------------------------------------------------------
(* The round trip's claims *)

\* The published document has just been expanded onto its pending node.
DecodedExpansion == last.kind = "expanded" /\ last.handle = DecodedHandle

\* The scene elements of the document: every declared node but the root.
SceneElements == { i \in 1..Len(declared) : declared[i].entity # 1 }

\* C17: once the published document is expanded onto a pending node of an
\* empty world, the instance node of every scene element carries every record
\* the element authored, with the authored value, and the instance root
\* carries every record the document authored on its root (the records of
\* the Template root, which the decoder attached as authored).
C17_AuthoredRecordsReproduced ==
    DecodedExpansion =>
        /\ \A i \in SceneElements :
              \A f \in LastOfAlias(declared[i].components) :
                  LET fragment == declared[i].components[f]
                  IN  world[last.map[declared[i].entity]][ComponentDescriptors[fragment.alias].type]
                          = Some(fragment.value)
        /\ \A c \in AuthoredTypes :
              Has(pool[1].world[1], c) => world[last.root][c] = pool[1].world[1][c]

\* No two nodes of the document, its root included, end with the same id.
DistinctIds ==
    \A i, j \in 1..Len(declared) : declared[i].id = declared[j].id => i = j

-----------------------------------------------------------------------------
(* C19 *)

\* A character of an identifier.
IsIdent(c) == c \notin {"<", ">", ",", " ", ":"}

\* The character at i belongs to a module path: it is a colon, or a character
\* of an identifier that a colon follows.
InPath(chars, i) ==
    \/ chars[i] = ":"
    \/ /\ IsIdent(chars[i])
       /\ \E j \in (i + 1)..Len(chars) :
            /\ chars[j] = ":"
            /\ \A m \in i..(j - 1) : IsIdent(chars[m])

\* The type name with every module path removed.
RECURSIVE StripFrom(_, _)
StripFrom(chars, i) ==
    IF i > Len(chars) THEN <<>>
    ELSE IF InPath(chars, i) THEN StripFrom(chars, i + 1)
    ELSE << chars[i] >> \o StripFrom(chars, i + 1)

StripPaths(chars) == StripFrom(chars, 1)

\* C19: the default alias of a type is its name with the module path
\* removed from the outer type and from every generic argument, every
\* argument kept; so two type names that differ once their paths are removed
\* get different aliases.
C19_AliasKeepsEveryArgument ==
    /\ \A n \in 1..Len(aliased) : aliased[n].alias = StripPaths(aliased[n].input)
    /\ Len(aliased) = 2 =>
          (StripPaths(aliased[1].input) # StripPaths(aliased[2].input)
              => aliased[1].alias # aliased[2].alias)

-----------------------------------------------------------------------------
(* The passes' claims *)

\* The node carries the Pending marker and an asset handle.
Pending(e) ==
    /\ e \in Entities
    /\ Has(world[e], "PrefabNotInstantiatedTag")
    /\ Has(world[e], "Handle")

\* The node is pending and its asset is loaded, with the type the node expects.
PendingLoaded(e) ==
    /\ Pending(e)
    /\ Get(world[e], "Handle") \in loaded
    /\ ~WrongExpectedSourcePrefab(world[e], Assets[Get(world[e], "Handle")])

\* The node has been expanded and no longer carries the Pending marker.
Expanded(e) ==
    /\ e \in Entities
    /\ ExpansionsOf(e) # {}
    /\ ~Has(world[e], "PrefabNotInstantiatedTag")

\* C21: a pending node whose asset is not loaded keeps the Pending marker and
\* never gets the Error marker; and as long as passes keep running (no pass
\* has panicked) there is always a later moment at which no node is left
\* pending with its asset loaded and of the expected type: a node stays in
\* that condition until it is expanded, so every such node is expanded by a
\* later pass, which removes its Pending marker.
C21_UnloadedStaysPendingThenExpands ==
    /\ [](\A e \in Entities :
            PendingUnloaded(e) =>
                /\ Has(world[e], "PrefabNotInstantiatedTag")
                /\ ~Has(world[e], "PrefabErrorTag"))
    /\ []<>(pc = "panicked" \/ \A e \in Entities : ~PendingLoaded(e))
    /\ [](\A e \in Entities :
            (Has(born[e], "PrefabNotInstantiatedTag") /\ Has(born[e], "Handle")
                /\ ~Pending(e) /\ ~Has(world[e], "PrefabErrorTag")) => Expanded(e))

\* A root spawned by a command has been expanded, and an earlier expansion
\* took place in a pass that had this root in its queue while its asset was
\* not loaded: the lookup failed in that pass and a later pass expanded it.
C21_Witness ==
    \E j, k \in 1..Len(expansions) :
        /\ j < k
        /\ spawnedBy[expansions[k].root] = 0
        /\ expansions[k].root <= expansions[j].n
        /\ expansions[k].handle \in expansions[j].waiting
        /\ Expanded(expansions[k].root)

LookupFails(e) == AssetsGet(Get(world[e], "Handle")) = Absent

\* C23: at the step by which a pass returns, every node left with the Pending
\* marker and a handle is in the pass's retry set and its asset is not there:
\* no pending node whose asset is loaded, created by an expansion of the pass
\* or not, is left for a later pass.
C23_ReturnLeavesOnlyFailedLookups ==
    [][(pc = "spawner" /\ pc' = "idle") =>
          \A e \in 1..Len(world') :
              (Has(world'[e], "PrefabNotInstantiatedTag") /\ Has(world'[e], "Handle"))
                  => (e \in blacklist' /\ LookupFails(e)')]_vars

\* A pass has returned after expanding a node that one of its own expansions
\* created, while another node stays pending in its retry set.
C23_Witness ==
    /\ pc = "idle"
    /\ last = NoStep
    /\ \E e \in blacklist : Pending(e) /\ LookupFails(e)
    /\ \E j, k \in 1..Len(expansions) :
          /\ j < k
          /\ spawnedBy[expansions[k].root] = expansions[j].root
          /\ expansions[k].handle \notin expansions[j].waiting
          /\ Expanded(expansions[k].root)

\* C24: an expansion leaves the Parent of its root as it was before, and never
\* makes the root its own parent.
C24_RootParentUnchanged ==
    last.kind = "expanded" =>
        /\ world[last.root]["Parent"] = last.before[last.root]["Parent"]
        /\ world[last.root]["Parent"] # Some(last.root)

\* C25: right after an expansion, a created node whose template node has no
\* Parent has the expansion's root as its Parent, and a created node whose
\* template node has a Parent has the node the handle map gives for it.
C25_CreatedNodesParented ==
    last.kind = "expanded" =>
        LET prefab == Assets[last.handle]
        IN  \A t \in DOMAIN last.map :
                t # prefab.root_entity =>
                    IF Has(prefab.world[t], "Parent")
                    THEN Get(prefab.world[t], "Parent") \in DOMAIN last.map =>
                            world[last.map[t]]["Parent"] =
                                Some(last.map[Get(prefab.world[t], "Parent")])
                    ELSE world[last.map[t]]["Parent"] = Some(last.root)

\* An expansion onto a root that is not node 1 has created a node without a
\* template parent and a node whose template parent is not the template's root.
C25_Witness ==
    /\ last.kind = "expanded"
    /\ last.root # Assets[last.handle].root_entity
    /\ \E t, u \in DOMAIN last.map :
          LET prefab == Assets[last.handle]
          IN  /\ t # prefab.root_entity
              /\ u # prefab.root_entity
              /\ ~Has(prefab.world[t], "Parent")
              /\ Has(prefab.world[u], "Parent")
              /\ Get(prefab.world[u], "Parent") # prefab.root_entity
              /\ last.map[Get(prefab.world[u], "Parent")] # Get(prefab.world[u], "Parent")

\* C26: right after a successful expansion the root's Transform has, for each
\* of translation, rotation and scale, the value of the root's transform
\* override where it gave one and the value of the prefab's transform where
\* it gave none; the root has neither the Pending marker nor the override.
C26_RootTransformComposed ==
    last.kind = "expanded" =>
        LET root == world[last.root]
            before == last.before[last.root]
            base == Assets[last.handle].transform
        IN  /\ ~Has(root, "PrefabNotInstantiatedTag")
            /\ ~Has(root, "PrefabTransformOverride")
            /\ Has(root, "Transform")
            /\ \A f \in {"translation", "rotation", "scale"} :
                  Get(root, "Transform")[f] =
                      IF /\ Has(before, "PrefabTransformOverride")
                         /\ Get(before, "PrefabTransformOverride")[f] # Absent
                      THEN Get(before, "PrefabTransformOverride")[f][1]
                      ELSE base[f]

\* The expanded root had an override that gave one field a value other than
\* the prefab's and left another field, which the prefab sets, open.
C26_Witness ==
    /\ last.kind = "expanded"
    /\ Has(last.before[last.root], "PrefabTransformOverride")
    /\ LET o == Get(last.before[last.root], "PrefabTransformOverride")
           base == Assets[last.handle].transform
       IN  \E f, g \in DOMAIN o :
              /\ o[f] # Absent /\ o[f][1] # base[f]
              /\ o[g] = Absent /\ base[g] # DefaultTransform[g]

\* The last turn of the loop ran an expansion up to its constructor, which
\* returned Err.
ConstructorFailed ==
    /\ last.kind \in {"expanded", "panic"}
    /\ last.map # <<>>
    /\ ~ConstructRoot(world[last.root], Assets[last.handle]).ok

\* C27: when the constructor of an expansion returns Err the pass goes on: it
\* is still in its loop, and the root is without the Pending marker and not
\* in the queue.
C27_ConstructorFailureGoesOn ==
    ConstructorFailed =>
        /\ pc = "spawner"
        /\ ~Has(world[last.root], "PrefabNotInstantiatedTag")
        /\ \A item \in prefabs_queue : item[1] # last.root

\* Some node of the prefab has a record whose type has no descriptor.
HasUnregistered(prefab) ==
    \E t \in 1..Len(prefab.world) :
        \E c \in ComponentTypes : Has(prefab.world[t], c) /\ c \notin Registered

\* C28: a turn that starts to copy a prefab with a record of an unregistered
\* type panics; no expansion of such a prefab is ever completed, and every
\* node an expansion creates has every record of its prefab node. (What the
\* root itself takes over from the prefab's root is C4's matter.)
C28_UnregisteredRecordAborts ==
    /\ (last.kind \in {"expanded", "panic"} /\ HasUnregistered(Assets[last.handle])) =>
          /\ pc = "panicked"
          /\ last.map = <<>>
    /\ \A k \in 1..Len(expansions) : ~HasUnregistered(Assets[expansions[k].handle])
    /\ last.kind = "expanded" =>
          LET prefab == Assets[last.handle]
          IN  \A t \in DOMAIN last.map :
                  t # prefab.root_entity =>
                      \A c \in ComponentTypes :
                          Has(prefab.world[t], c) => Has(world[last.map[t]], c)

\* A pass that has expanded a node has then panicked at a prefab whose nested
\* node has the unregistered BoxedPrefabOverrides.
C28_Witness ==
    /\ last.kind = "panic"
    /\ pc = "panicked"
    /\ Has(Assets[last.handle].world[2], "BoxedPrefabOverrides")
    /\ expansions # <<>>

\* C29: the handle map of the expansion just made sends the prefab's root to
\* the node that was pending and each other prefab node to a node of its own
\* among the new ones, and every new node stands for a prefab node: a prefab
\* of n nodes has added n - 1 nodes.
C29_HandleMapAddsAllButRoot ==
    last.kind = "expanded" =>
        LET prefab == Assets[last.handle]
            old == 1..Len(last.before)
            new == Entities \ old
        IN  /\ last.map[prefab.root_entity] = last.root
            /\ last.root \in old
            /\ Has(last.before[last.root], "PrefabNotInstantiatedTag")
            /\ \A t \in DOMAIN last.map : t # prefab.root_entity => last.map[t] \in new
            /\ \A i \in new :
                  Cardinality({t \in DOMAIN last.map : last.map[t] = i}) = 1
            /\ Cardinality(new) = Len(prefab.world) - 1

\* A prefab of more than two nodes has been expanded onto a node of a graph
\* that had other nodes.
C29_Witness ==
    /\ last.kind = "expanded"
    /\ Len(Assets[last.handle].world) > 2
    /\ Len(last.before) > 1
    /\ last.root # 1

-----------------------------------------------------------------------------
(* The decoded nodes' claims *)

\* The elements of the document read so far that name a prefab type.
References == { i \in 1..Len(declared) : declared[i].alias # "" }

\* C30: while a document is decoded without error and once it is decoded,
\* the node of every nested prefab element has the Pending marker, a Handle
\* and a PrefabTransformOverride; it has a PrefabConstruct, the descriptor's,
\* exactly when the descriptor needs no source document, and a PrefabTypeUuid,
\* the descriptor's, exactly when it needs one.
C30_ReferenceNodeRecords ==
    dpc \in {"scene", "body", "done"} =>
        \A i \in References :
            LET node == dworld[declared[i].entity]
                descriptor == PrefabDescriptors[declared[i].alias]
            IN  /\ Has(node, "PrefabNotInstantiatedTag")
                /\ Has(node, "Handle")
                /\ Has(node, "PrefabTransformOverride")
                /\ Has(node, "PrefabConstruct") <=> ~descriptor.source_prefab_required
                /\ Has(node, "PrefabTypeUuid") <=> descriptor.source_prefab_required
                /\ Has(node, "PrefabConstruct") =>
                      Get(node, "PrefabConstruct") = descriptor.construct
                /\ Has(node, "PrefabTypeUuid") =>
                      Get(node, "PrefabTypeUuid") = descriptor.uuid

\* A decoded document has a nested prefab built by code alone and one that
\* needs a source document.
C30_Witness ==
    /\ dpc = "done"
    /\ \E i, j \in References :
          /\ ~PrefabDescriptors[declared[i].alias].source_prefab_required
          /\ PrefabDescriptors[declared[j].alias].source_prefab_required

-----------------------------------------------------------------------------
(* The override decoders' claims *)

\* The axes a written vector override supplies, each with the value that
\* counts: the position in a sequence, the last entry of a map.
Supplied(written) ==
    IF written.form = "seq"
    THEN [axis \in { <<"x", "y">>[i] : i \in 1..Len(written.items) \cap 1..2 } |->
            written.items[IF axis = "x" THEN 1 ELSE 2]]
    ELSE [axis \in { written.items[i][1] : i \in 1..Len(written.items) } |->
            LET i == CHOOSE i \in 1..Len(written.items) :
                        /\ written.items[i][1] = axis
                        /\ \A j \in (i + 1)..Len(written.items) : written.items[j][1] # axis
            IN  written.items[i][2]]

\* C31: a vector override written as a map of axes, or as a sequence no
\* longer than the vector, sets on a Vec2 target the axes it supplies and
\* leaves the others as they were; a sequence longer than the vector fails
\* to decode, and nothing is applied.
C31_VectorOverrideSetsSuppliedAxes ==
    owritten.form \in {"seq", "map"} =>
        /\ (owritten.form = "seq" /\ Len(owritten.items) > 2) =>
              (oerror # NoError /\ oresult = Absent)
        /\ (owritten.form = "seq" /\ Len(owritten.items) <= 2) => oerror = NoError
        /\ (owritten.form = "map" /\ DOMAIN Supplied(owritten) \subseteq {"x", "y"}) =>
              oerror = NoError
        /\ (oerror = NoError /\ otarget.type = "Vec2") =>
              /\ oresult # Absent
              /\ oresult[1].type = "Vec2"
              /\ \A axis \in {"x", "y"} :
                    oresult[1][axis] = IF axis \in DOMAIN Supplied(owritten)
                                       THEN Supplied(owritten)[axis]
                                       ELSE otarget[axis]

\* A sequence of one element has been applied to a vector whose second axis
\* is not at its default.
C31_Witness ==
    /\ owritten.form = "seq"
    /\ Len(owritten.items) = 1
    /\ otarget.type = "Vec2"
    /\ otarget.y = 1
    /\ oresult = Some(Vec2(owritten.items[1], 1))

\* The type an override expects of its target.
Expects(override) == IF override.type = "Vec2Override" THEN "Vec2" ELSE override.type

\* C32: a patch has been applied to a record; a field whose value is not of
\* the type its override expects is as it was and has been warned about, no
\* other field has been warned about, and every other field the patch names
\* has its override applied: the application always completes.
C32_MismatchLeavesTargetAndWarns ==
    (owritten = NoWritten /\ opatch # <<>>) =>
        /\ oresult # Absent
        /\ DOMAIN oresult[1] = DOMAIN otarget
        /\ \A f \in DOMAIN otarget :
              IF f \notin DOMAIN opatch
              THEN oresult[1][f] = otarget[f] /\ f \notin owarned
              ELSE IF otarget[f].type # Expects(opatch[f])
              THEN oresult[1][f] = otarget[f] /\ f \in owarned
              ELSE /\ f \notin owarned
                   /\ IF opatch[f].type = "Vec2Override"
                      THEN oresult[1][f] =
                              Vec2(IF opatch[f].x # Absent THEN opatch[f].x[1] ELSE otarget[f].x,
                                   IF opatch[f].y # Absent THEN opatch[f].y[1] ELSE otarget[f].y)
                      ELSE oresult[1][f] = opatch[f]

\* A patch of three fields has met a record two of whose fields have another
\* type: the third is overridden, and so is an axis of no field.
C32_Witness ==
    /\ owritten = NoWritten
    /\ DOMAIN opatch = {"a", "b", "v"}
    /\ otarget.a.type = "Vec2"
    /\ otarget.v.type = "i32"
    /\ owarned = {"a", "v"}
    /\ oresult # Absent
    /\ oresult[1].b = opatch.b
    /\ oresult[1].b # otarget.b

\* The names of the fields of a struct type, and the type of each.
FieldNames(type) == { StructFields[type][i][1] : i \in 1..Len(StructFields[type]) }

FieldType(type, name) ==
    LET i == CHOOSE i \in 1..Len(StructFields[type]) : StructFields[type][i][1] = name
    IN  StructFields[type][i][2]

\* C33: register_struct has left a Struct descriptor for the type, whose
\* fields are those whose type had a descriptor before the call or is a
\* struct itself, each with that descriptor; it has warned about the other
\* fields of the type and about none of these.  A patch for a registered
\* struct that names a field its descriptor lacks fails to decode, with
\* "unknown field" when that is the first thing the patch names.
C33_RegisterStructDescribesOverridableFields ==
    /\ owritten.form = "register_struct" =>
          LET type == owritten.items
              before == owritten.before
              described == { name \in FieldNames(type) :
                                \/ FieldType(type, name) \in DOMAIN before
                                \/ FieldType(type, name) \in DOMAIN StructFields }
          IN  /\ type \in DOMAIN override_registry
              /\ override_registry[type].kind = "Struct"
              /\ DOMAIN override_registry[type].fields = described
              /\ \A name \in described :
                    override_registry[type].fields[name] =
                        IF FieldType(type, name) \in DOMAIN before
                        THEN before[FieldType(type, name)]
                        ELSE override_registry[FieldType(type, name)]
              /\ \A name \in FieldNames(type) :
                    (<<type, name>> \in owarned) <=> (name \notin described)
    /\ owritten.form = "patch" =>
          LET fields == DOMAIN override_registry[owritten.type].fields
              named == { owritten.items[i][1] : i \in 1..Len(owritten.items) }
          IN  /\ ~(named \subseteq fields) => (oerror # NoError /\ opatch = <<>>)
              /\ (owritten.items # <<>> /\ owritten.items[1][1] \notin fields) =>
                    oerror = UnknownField(owritten.items[1][1])
              /\ oerror = NoError => DOMAIN opatch = named

\* Outer was registered while String had no override: its descriptor has
\* the fields a, n and v, Inner's was derived, and a patch for Outer that
\* names s has been rejected.
C33_Witness ==
    /\ owritten.form = "patch"
    /\ owritten.type = "Outer"
    /\ owritten.items # <<>>
    /\ owritten.items[1][1] = "s"
    /\ oerror = UnknownField("s")
    /\ DOMAIN override_registry["Outer"].fields = {"a", "n", "v"}
    /\ DOMAIN override_registry["Inner"].fields = {"c"}

-----------------------------------------------------------------------------
(* The application's claims *)

\* Whether the registries hold the registration under its alias and type.
Known(resources, registration) ==
    LET registry == IF registration[1] = "prefab" THEN resources.prefab_registry
                    ELSE resources.component_registry
    IN  /\ registration[2] \in DOMAIN registry.named
        /\ registration[3] \in DOMAIN registry.typed

\* C34: a registration the host makes after it installed the plugin and
\* before startup does not fail for lack of a registry, the startup commit
\* finds the registries, and once the App runs the registries of the
\* PrefabDeserializer hold every registration of the host that returned.
C34_HostRegistrationsReachDecoder ==
    /\ plugin # Absent => apanic.message # NoRegistry
    /\ apc = "running" =>
           /\ prefab_deserializer # Absent
           /\ \A registration \in hosted : Known(prefab_deserializer[1], registration)

\* Whether the last step was register_prefab_aliased and panicked in its
\* second registration, that of the record descriptor.
SecondFailed ==
    /\ rlast.call.kind = "host prefab"
    /\ rlast.result.error = "prefab data component could not be registered"

\* C36: when register_prefab_aliased fails in its second registration, that
\* of the record descriptor, the template descriptor registry and its table
\* by uuid are as they were before the call.
C36_TemplateRegistrationAllOrNothing ==
    SecondFailed =>
        /\ prefab_registry = rlast.call.before.prefab_registry
        /\ tagged = rlast.call.before.tagged

C37_ExpansionLeavesAssetAlone ==
    /\ defaults = [handle \in DOMAIN Assets |-> Assets[handle].data]
    /\ \A k \in 1..Len(expansions) :
           LET root == expansions[k].root
               asset == Assets[expansions[k].handle]
           IN  (~Has(born[root], "PrefabConstruct") /\ ~Has(born[root], asset.type)) =>
                   /\ Has(world[root], asset.type)
                   /\ Get(world[root], asset.type) =
                          IF Has(born[root], "BoxedPrefabOverrides")
                          THEN apply_override(Get(born[root], "BoxedPrefabOverrides"),
                                              asset.data)
                          ELSE asset.data

\* Two roots have been expanded from the same asset, the first with a patch
\* that changed its record, the second without a patch or with another.
C37_Witness ==
    /\ Len(expansions) = 2
    /\ expansions[1].handle = expansions[2].handle
    /\ Has(born[expansions[1].root], "BoxedPrefabOverrides")
    /\ Get(world[expansions[1].root], Assets[expansions[1].handle].type)
          # Assets[expansions[1].handle].data
    /\ born[expansions[2].root]["BoxedPrefabOverrides"]
          # born[expansions[1].root]["BoxedPrefabOverrides"]
    /\ Has(world[expansions[2].root], Assets[expansions[2].handle].type)

-----------------------------------------------------------------------------
(* The markers' claims *)

\* C38: no step leaves a node with both PrefabNotInstantiatedTag and
\* PrefabErrorTag, and no step attaches PrefabNotInstantiatedTag to a node
\* of the world that does not carry it: a node a pass has taken the marker
\* from, by expanding it or by the type mismatch, never gets it again.
C38_MarkersExclusiveAndPendingNotReattached ==
    [][/\ \A e \in 1..Len(world') :
              ~(Has(world'[e], "PrefabNotInstantiatedTag") /\ Has(world'[e], "PrefabErrorTag"))
       /\ \A e \in 1..Len(world) :
              ~Has(world[e], "PrefabNotInstantiatedTag") =>
                  ~Has(world'[e], "PrefabNotInstantiatedTag")]_vars

\* A node carries the Error marker of a type mismatch, another node has been
\* expanded in an earlier step, and the last step has expanded a third one.
C38_Witness ==
    /\ last.kind = "expanded"
    /\ \E e \in 1..Len(world) :
           /\ Has(world[e], "PrefabErrorTag")
           /\ Has(born[e], "PrefabNotInstantiatedTag")
           /\ ~Has(world[e], "PrefabNotInstantiatedTag")
    /\ \E e \in 1..Len(world) \ {last.root} :
           /\ ExpansionsOf(e) # {}
           /\ ~Has(world[e], "PrefabNotInstantiatedTag")
           /\ ~Has(world[e], "PrefabErrorTag")

====
